---- MODULE Spec2Model ----
(***************************************************************************)
(* Q-learning optimisation loop of the conversational dashboard.           *)
(*                                                                         *)
(* Two engines share the design: the SQL engine (lib/rl: optimizeSQL over  *)
(* the module-level Q-table of qlearning.ts and the module-level buffer of *)
(* experience.ts) and the generic engine of the worker (optimizeWithRL,    *)
(* QLearningKV, ExperienceBufferKV).                                       *)
(*                                                                         *)
(* Numbers: the code computes Q-values, rewards and hyperparameters in     *)
(* IEEE doubles.  The model keeps them as integers in thousandths          *)
(* (0.1 is 100, 15.8 is 15800); a product of two such numbers is divided   *)
(* by 1000 and rounded down.                                               *)
(***************************************************************************)
EXTENDS Integers, Sequences, FiniteSets, TLC

VARIABLES
    \* ---- lib/rl/qlearning.ts, module state
    qtable,        \* Map<stateKey, Map<action, number>> in insertion order
    config,        \* QLearningConfig
    queriesProcessed,
    qfile,         \* data/qtable.json: << >> when absent, else << PersistedQTable >>
    qwrites,       \* saveQTable calls whose file write has not happened yet
    \* ---- QLearningKV (worker)
    kvTable,       \* this.qTable: plain object stateKey -> action -> number
    kvConfig,      \* this.config
    kvStore,       \* the KV namespace entry 'qtable'
    \* ---- lib/rl/experience.ts and ExperienceBufferKV
    experiences,   \* the module-level array
    expfile,       \* data/experiences.json: << >> when absent, else << array >>
    expwrites,     \* saveExperiences calls that have not written yet
    kvExperiences, \* ExperienceBufferKV.experiences
    kvExpStore,    \* the KV namespace entry 'experiences'
    \* ---- one optimisation session (optimizeSQL / optimizeWithRL)
    session,
    \* ---- bookkeeping of the verification
    lastOp,        \* the last store operation: name, arguments, result
    added,         \* experiences added since the buffer was last empty
    opCount        \* number of operations performed (bounds the runs)

vars == << qtable, config, queriesProcessed, qfile, qwrites,
           kvTable, kvConfig, kvStore,
           experiences, expfile, expwrites, kvExperiences, kvExpStore,
           session, lastOp, added, opCount >>

qVars   == << qtable, config, queriesProcessed, qfile, qwrites >>
kvVars  == << kvTable, kvConfig, kvStore >>
expVars == << experiences, expfile, expwrites >>
kvExpVars == << kvExperiences, kvExpStore >>

(***************************************************************************)
(* Bounds of the model.                                                    *)
(***************************************************************************)
\* stands for config.maxQTableSize (10000 in DEFAULT_CONFIG)
MaxQTableSize == 2
\* stands for MAX_EXPERIENCES / the default maxSize (1000)
MaxExperiences == 2
\* number of distinct state keys the store operations are tried on
NumStateKeys == MaxQTableSize + 1
\* number of store operations in one run of the store specifications
MaxOps == 2
\* number of buffer operations in one run of the buffer specification
MaxExpOps == 4
\* largest maxIterations a session is started with
MaxIter == 2

(***************************************************************************)
(* Hyperparameters, in thousandths.                                        *)
(***************************************************************************)
Alpha == 100
Gamma == 900
Epsilon == 200
EpsilonDecay == 995
EpsilonMin == 50
KVLearningRate == 100
KVDiscountFactor == 950
KVEpsilon == 200
KVEpsilonDecay == 995
KVMinEpsilon == 10
GeneratorSeed == 500

DEFAULT_CONFIG ==
    [ alpha |-> Alpha, gamma |-> Gamma, epsilon |-> Epsilon,
      epsilonDecay |-> EpsilonDecay, epsilonMin |-> EpsilonMin,
      maxQTableSize |-> MaxQTableSize, maxExperiences |-> MaxExperiences ]

KV_CONFIG ==
    [ learningRate |-> KVLearningRate, discountFactor |-> KVDiscountFactor,
      epsilon |-> KVEpsilon, epsilonDecay |-> KVEpsilonDecay,
      minEpsilon |-> KVMinEpsilon ]

\* a * b for two numbers in thousandths
Mul(a, b) == (a * b) \div 1000

Max2(a, b) == IF a >= b THEN a ELSE b
Min2(a, b) == IF a <= b THEN a ELSE b

RECURSIVE SeqMax(_)
\* Math.max(...xs) for a non-empty xs
SeqMax(xs) ==
    IF Len(xs) = 1 THEN xs[1] ELSE Max2(xs[1], SeqMax(Tail(xs)))

Range(s) == { s[i] : i \in DOMAIN s }

(***************************************************************************)
(* qlearning.ts: the Q-table is a sequence of <<stateKey, actionMap>> in   *)
(* insertion order; an actionMap is a function on the actions written.     *)
(***************************************************************************)
EmptyMap == [ a \in {} |-> 0 ]

KeysOf(qt) == { qt[i][1] : i \in DOMAIN qt }

IndexOf(qt, k) == CHOOSE i \in DOMAIN qt : qt[i][1] = k

ActionMapOf(qt, k) == qt[IndexOf(qt, k)][2]

\* the generator action of the generic engine (generic/actions line 8) and
\* of the SQL engine (types.ts line 45)
GeneratorActions == { "USE_GENERATOR", "llm_policy" }

getInitialQValue(action) ==
    IF action = "USE_GENERATOR" THEN GeneratorSeed ELSE 0

getQValue(qt, stateKey, action) ==
    IF stateKey \notin KeysOf(qt) THEN getInitialQValue(action)
    ELSE IF action \notin DOMAIN ActionMapOf(qt, stateKey)
         THEN getInitialQValue(action)
         ELSE ActionMapOf(qt, stateKey)[action]

\* qtable.keys().next().value is deleted when it is truthy
evictOldestEntry(qt) ==
    IF Len(qt) > 0 THEN Tail(qt) ELSE qt

\* actionMap.set(action, value)
MapSet(m, action, value) ==
    [ a \in DOMAIN m \cup {action} |-> IF a = action THEN value ELSE m[a] ]

\* setQValue on a Map that moves a written entry to the end of its order
setQValueMoveToEnd(qt, cfg, stateKey, action, value) ==
    LET old == IF stateKey \in KeysOf(qt) THEN ActionMapOf(qt, stateKey) ELSE EmptyMap
        rest == SelectSeq(qt, LAMBDA e : e[1] # stateKey)
        written == Append(rest, << stateKey, MapSet(old, action, value) >>)
    IN  IF Len(written) > cfg.maxQTableSize
        THEN evictOldestEntry(written)
        ELSE written

\* lines 103-119
setQValue(qt, cfg, stateKey, action, value) ==
    LET withKey == IF stateKey \in KeysOf(qt) THEN qt
                   ELSE Append(qt, << stateKey, EmptyMap >>)
        i == IndexOf(withKey, stateKey)
        written == [ withKey EXCEPT ![i] =
                       << stateKey, MapSet(withKey[i][2], action, value) >> ]
    IN  IF Len(written) > cfg.maxQTableSize
        THEN evictOldestEntry(written)
        ELSE written

\* updateQValue taking the maximum over the current state instead of the next one
updateQValueOfCurrentState(qt, cfg, stateKey, action, reward, nextStateKey, applicableActions) ==
    LET currentQ == getQValue(qt, stateKey, action)
        maxNextQ == SeqMax([ i \in DOMAIN applicableActions |->
                               getQValue(qt, stateKey, applicableActions[i]) ])
        newQ == currentQ + Mul(cfg.alpha, reward + Mul(cfg.gamma, maxNextQ) - currentQ)
    IN  setQValue(qt, cfg, stateKey, action, newQ)

\* updateQValue that does not see the value written by the update before:
\* it starts from the initial Q-value of the pair
updateQValueFromInitial(qt, cfg, stateKey, action, reward, nextStateKey, applicableActions) ==
    LET currentQ == getInitialQValue(action)
        maxNextQ == SeqMax([ i \in DOMAIN applicableActions |->
                               getQValue(qt, nextStateKey, applicableActions[i]) ])
        newQ == currentQ + Mul(cfg.alpha, reward + Mul(cfg.gamma, maxNextQ) - currentQ)
    IN  setQValue(qt, cfg, stateKey, action, newQ)

\* currentQ + alpha * (reward + gamma * maxNextQ - currentQ)
updateQValue(qt, cfg, stateKey, action, reward, nextStateKey, applicableActions) ==
    LET currentQ == getQValue(qt, stateKey, action)
        maxNextQ == SeqMax([ i \in DOMAIN applicableActions |->
                               getQValue(qt, nextStateKey, applicableActions[i]) ])
        newQ == currentQ + Mul(cfg.alpha, reward + Mul(cfg.gamma, maxNextQ) - currentQ)
    IN  setQValue(qt, cfg, stateKey, action, newQ)

RECURSIVE BestFromLastWins(_, _, _, _, _)
\* the for-loop of selectAction with >= in place of >: the last maximum wins
BestFromLastWins(qt, stateKey, applicableActions, i, best) ==
    IF i > Len(applicableActions) THEN best
    ELSE IF getQValue(qt, stateKey, applicableActions[i]) >= getQValue(qt, stateKey, best)
         THEN BestFromLastWins(qt, stateKey, applicableActions, i + 1, applicableActions[i])
         ELSE BestFromLastWins(qt, stateKey, applicableActions, i + 1, best)

RECURSIVE BestFrom(_, _, _, _, _)
\* the for-loop of selectAction from position i on: a later action replaces
\* the best one only when its Q-value is strictly greater
BestFrom(qt, stateKey, applicableActions, i, best) ==
    IF i > Len(applicableActions) THEN best
    ELSE IF getQValue(qt, stateKey, applicableActions[i]) > getQValue(qt, stateKey, best)
         THEN BestFrom(qt, stateKey, applicableActions, i + 1, applicableActions[i])
         ELSE BestFrom(qt, stateKey, applicableActions, i + 1, best)

\* selectAction exploring also when the draw equals epsilon
selectActionExploresAtEpsilon(qt, cfg, stateKey, applicableActions, rnd, idx) ==
    IF rnd <= cfg.epsilon
    THEN applicableActions[idx]
    ELSE BestFrom(qt, stateKey, applicableActions, 1, applicableActions[1])

\* rnd is the value of Math.random() in the test of line 153 (thousandths),
\* idx the index drawn in line 154 (1-based here)
selectAction(qt, cfg, stateKey, applicableActions, rnd, idx) ==
    IF rnd < cfg.epsilon
    THEN applicableActions[idx]
    ELSE BestFrom(qt, stateKey, applicableActions, 1, applicableActions[1])

\* decayEpsilon with the factor 2 - epsilonDecay, which is at least 1
decayEpsilonGrowing(cfg) ==
    [ cfg EXCEPT !.epsilon = Max2(cfg.epsilonMin,
                                  Mul(cfg.epsilon, 2000 - cfg.epsilonDecay)) ]

decayEpsilon(cfg) ==
    [ cfg EXCEPT !.epsilon = Max2(cfg.epsilonMin, Mul(cfg.epsilon, cfg.epsilonDecay)) ]

(***************************************************************************)
(* saveQTable / loadQTable.  A save copies the Map into a plain object     *)
(* synchronously; the hyperparameters are serialised after the awaited     *)
(* mkdir, and the file changes when writeFile completes.                   *)
(***************************************************************************)
\* a save that copies nothing of the Map
saveQTableSnapshotEmpty(qt, cfg) == [ phase |-> "mkdir", qtable |-> << >>, hyperparams |-> cfg ]

\* lines 61-74, up to the first await
saveQTableSnapshot(qt, cfg) == [ phase |-> "mkdir", qtable |-> qt, hyperparams |-> cfg ]

\* line 77: JSON.stringify(persisted) reads config when mkdir has resolved
saveQTableStringify(w, cfg) == [ w EXCEPT !.phase = "write", !.hyperparams = cfg ]

PersistedOf(w) == [ hyperparams |-> w.hyperparams, qtable |-> w.qtable ]

\* a load that restores no entry
loadQTableMapEmpty(file) == << >>

\* lines 32-52: the Map and the config after a load of `file`
\* (a file or KV entry is a sequence holding its content, empty when absent)
loadQTableMap(file) == IF file = << >> THEN << >> ELSE file[1].qtable
loadQTableConfig(file, cfg) == IF file = << >> THEN cfg ELSE file[1].hyperparams

RemoveAt(s, i) == [ j \in 1..(Len(s) - 1) |-> IF j < i THEN s[j] ELSE s[j + 1] ]

(***************************************************************************)
(* QLearningKV: this.qTable is a plain object, a function on the state     *)
(* keys present.                                                           *)
(***************************************************************************)
EmptyTable == [ k \in {} |-> EmptyMap ]

\* if (!this.qTable[state]) this.qTable[state] = {}
kvTouch(t, state) ==
    IF state \in DOMAIN t THEN t
    ELSE [ k \in DOMAIN t \cup {state} |-> IF k = state THEN EmptyMap ELSE t[k] ]

\* the value getQValue returns: this.qTable[state][action] || 0
kvGetQValue(t, state, action) ==
    IF state \in DOMAIN t /\ action \in DOMAIN t[state] THEN t[state][action] ELSE 0

kvSetQValue(t, state, action, value) ==
    LET u == kvTouch(t, state)
    IN  [ u EXCEPT ![state] = MapSet(u[state], action, value) ]

kvUpdateQValue(t, cfg, state, action, reward, nextState, possibleActions) ==
    LET currentQ == kvGetQValue(t, state, action)
        maxNextQ == SeqMax([ i \in DOMAIN possibleActions |->
                               kvGetQValue(t, nextState, possibleActions[i]) ])
        newQ == currentQ
                + Mul(cfg.learningRate, reward + Mul(cfg.discountFactor, maxNextQ) - currentQ)
    IN  kvSetQValue(kvTouch(kvTouch(t, state), nextState), state, action, newQ)

RECURSIVE kvBestFrom(_, _, _, _, _)
kvBestFrom(t, state, possibleActions, i, best) ==
    IF i > Len(possibleActions) THEN best
    ELSE IF kvGetQValue(t, state, possibleActions[i]) > kvGetQValue(t, state, best)
         THEN kvBestFrom(t, state, possibleActions, i + 1, possibleActions[i])
         ELSE kvBestFrom(t, state, possibleActions, i + 1, best)

kvSelectAction(t, cfg, state, possibleActions, rnd, idx) ==
    IF rnd < cfg.epsilon
    THEN possibleActions[idx]
    ELSE kvBestFrom(t, state, possibleActions, 1, possibleActions[1])

kvDecayEpsilon(cfg) ==
    [ cfg EXCEPT !.epsilon =
        Max2(IF cfg.minEpsilon # 0 THEN cfg.minEpsilon ELSE 10,
             Mul(cfg.epsilon, IF cfg.epsilonDecay # 0 THEN cfg.epsilonDecay ELSE 995)) ]

\* loadQTable of QLearningKV, lines 259-275
kvLoadTable(stored) == IF stored = << >> THEN EmptyTable ELSE stored[1].qTable
kvLoadConfig(stored, cfg) ==
    IF stored = << >> THEN cfg
    ELSE [ cfg EXCEPT !.epsilon =
             IF stored[1].epsilon # 0 THEN stored[1].epsilon ELSE cfg.epsilon ]

\* a save that puts an empty table
kvToSaveEmpty(t, cfg) == [ qTable |-> EmptyTable, epsilon |-> cfg.epsilon ]

\* saveQTable of QLearningKV, lines 280-294
kvToSave(t, cfg) == [ qTable |-> t, epsilon |-> cfg.epsilon ]

(***************************************************************************)
(* SpecQ: the operations of a Q-table store, applied in any order to       *)
(* either the file-backed store of qlearning.ts or to a QLearningKV.       *)
(***************************************************************************)
StateKeys == 1..NumStateKeys

StoreActions == { "USE_GENERATOR", "llm_policy", "add_where" }

\* the action lists handed to selectAction / updateQValue
ActionLists ==
    { << "USE_GENERATOR", "llm_policy", "add_where" >>,
      << "add_where", "llm_policy" >> }

Rewards == { 50000 }
QValues == { 20000 }

\* values of Math.random(), in thousandths
RandomDraws == { 0, 100, 999 }

\* the state keys an update is tried with as next state
NextKeys(k) == { k, (k % NumStateKeys) + 1 }

\* the action map an earlier process left for state key k
EarlierMap(k) ==
    IF k = 1 THEN [ a \in { "llm_policy" } |-> 10000 ]
    ELSE [ a \in { "add_where", "llm_policy" } |-> 20000 ]

\* files an earlier process can have left behind: none, or a full table
\* saved with epsilon 0
EarlierQFiles ==
    { << >>,
      << [ hyperparams |-> [ DEFAULT_CONFIG EXCEPT !.epsilon = 0 ],
           qtable |-> [ k \in 1..MaxQTableSize |-> << k, EarlierMap(k) >> ] ] >> }

EarlierKVStores ==
    { << >>,
      << [ qTable |-> [ k \in 1..MaxQTableSize |-> EarlierMap(k) ],
           epsilon |-> 50 ] >> }

NoOp == [ store |-> "none", op |-> "init", key |-> 0, action |-> "", reward |-> 0,
          next |-> 0, actions |-> << >>, rnd |-> 0, idx |-> 0, result |-> "" ]

IdleSession == [ pc |-> "idle" ]

\* the session is not running on the event loop: callbacks of pending I/O
\* can run
EventLoopFree == session.pc \in { "idle", "generate", "returned", "thrown" }

\* the configurations a QLearningKV is constructed with
KVConfigs == { KV_CONFIG, [ KV_CONFIG EXCEPT !.epsilon = 0 ] }

InitQ ==
    /\ qtable = << >>
    /\ config = DEFAULT_CONFIG
    /\ queriesProcessed = 0
    /\ qwrites = << >>
    /\ kvTable = EmptyTable
    /\ \/ /\ lastOp = [ NoOp EXCEPT !.store = "file" ]
          /\ qfile \in EarlierQFiles
          /\ kvConfig = KV_CONFIG /\ kvStore = << >>
       \/ /\ lastOp = [ NoOp EXCEPT !.store = "kv" ]
          /\ qfile = << >>
          /\ kvConfig \in KVConfigs /\ kvStore \in EarlierKVStores
    /\ experiences = << >> /\ expfile = << >> /\ expwrites = << >>
    /\ kvExperiences = << >> /\ kvExpStore = << >>
    /\ session = IdleSession
    /\ added = << >>
    /\ opCount = 0

QStep(st) ==
    /\ lastOp.store = st
    /\ opCount < MaxOps
    /\ opCount' = opCount + 1
    /\ UNCHANGED << expVars, kvExpVars, session, added >>

QLoad ==
    /\ QStep("file")
    /\ qtable' = loadQTableMap(qfile)
    /\ config' = loadQTableConfig(qfile, config)
    /\ lastOp' = [ NoOp EXCEPT !.store = "file", !.op = "load" ]
    /\ UNCHANGED << queriesProcessed, qfile, qwrites, kvVars >>

QSave ==
    /\ QStep("file")
    /\ qwrites = << >>
    /\ qwrites' = Append(qwrites, saveQTableSnapshot(qtable, config))
    /\ lastOp' = [ NoOp EXCEPT !.store = "file", !.op = "save" ]
    /\ UNCHANGED << qtable, config, queriesProcessed, qfile, kvVars >>

\* the awaited mkdir of a pending save resolves
QSaveStringify ==
    /\ EventLoopFree
    /\ \E i \in DOMAIN qwrites :
          /\ qwrites[i].phase = "mkdir"
          /\ qwrites' = [ qwrites EXCEPT ![i] = saveQTableStringify(qwrites[i], config) ]
    /\ UNCHANGED << qtable, config, queriesProcessed, qfile, kvVars, expVars, kvExpVars,
                    session, lastOp, added, opCount >>

\* the writeFile of a pending save completes
QSaveWrite ==
    /\ EventLoopFree
    /\ \E i \in DOMAIN qwrites :
          /\ qwrites[i].phase = "write"
          /\ qfile' = << PersistedOf(qwrites[i]) >>
          /\ qwrites' = RemoveAt(qwrites, i)
    /\ UNCHANGED << qtable, config, queriesProcessed, kvVars, expVars, kvExpVars,
                    session, lastOp, added, opCount >>

QGet ==
    /\ QStep("file")
    /\ \E k \in StateKeys, a \in StoreActions :
          lastOp' = [ NoOp EXCEPT !.store = "file", !.op = "get", !.key = k, !.action = a,
                                  !.result = getQValue(qtable, k, a) ]
    /\ UNCHANGED << qVars, kvVars >>

QSet ==
    /\ QStep("file")
    /\ \E k \in StateKeys, a \in { "llm_policy", "add_where" }, v \in QValues :
          /\ qtable' = setQValue(qtable, config, k, a, v)
          /\ lastOp' = [ NoOp EXCEPT !.store = "file", !.op = "set", !.key = k,
                                     !.action = a, !.reward = v ]
    /\ UNCHANGED << config, queriesProcessed, qfile, qwrites, kvVars >>

QUpdate ==
    /\ QStep("file")
    /\ \E k \in StateKeys, r \in Rewards, as \in ActionLists :
       \E n \in NextKeys(k) :
       \E a \in Range(as) :
          /\ qtable' = updateQValue(qtable, config, k, a, r, n, as)
          /\ lastOp' = [ NoOp EXCEPT !.store = "file", !.op = "update", !.key = k,
                                     !.action = a, !.reward = r, !.next = n,
                                     !.actions = as ]
    /\ UNCHANGED << config, queriesProcessed, qfile, qwrites, kvVars >>

QSelect ==
    /\ QStep("file")
    /\ \E k \in StateKeys, as \in ActionLists, rnd \in RandomDraws :
       \E idx \in (IF rnd < config.epsilon THEN DOMAIN as ELSE {1}) :
          lastOp' = [ NoOp EXCEPT !.store = "file", !.op = "select", !.key = k,
                                  !.actions = as, !.rnd = rnd, !.idx = idx,
                                  !.result = selectAction(qtable, config, k, as, rnd, idx) ]
    /\ UNCHANGED << qVars, kvVars >>

KVLoad ==
    /\ QStep("kv")
    /\ kvTable' = kvLoadTable(kvStore)
    /\ kvConfig' = kvLoadConfig(kvStore, kvConfig)
    /\ lastOp' = [ NoOp EXCEPT !.store = "kv", !.op = "load" ]
    /\ UNCHANGED << kvStore, qVars >>

KVSave ==
    /\ QStep("kv")
    /\ kvStore' = << kvToSave(kvTable, kvConfig) >>
    /\ lastOp' = [ NoOp EXCEPT !.store = "kv", !.op = "save" ]
    /\ UNCHANGED << kvTable, kvConfig, qVars >>

KVGet ==
    /\ QStep("kv")
    /\ \E k \in StateKeys, a \in StoreActions :
          /\ kvTable' = kvTouch(kvTable, k)
          /\ lastOp' = [ NoOp EXCEPT !.store = "kv", !.op = "get", !.key = k, !.action = a,
                                     !.result = kvGetQValue(kvTable, k, a) ]
    /\ UNCHANGED << kvConfig, kvStore, qVars >>

KVSet ==
    /\ QStep("kv")
    /\ \E k \in StateKeys, a \in { "llm_policy", "add_where" }, v \in QValues :
          /\ kvTable' = kvSetQValue(kvTable, k, a, v)
          /\ lastOp' = [ NoOp EXCEPT !.store = "kv", !.op = "set", !.key = k,
                                     !.action = a, !.reward = v ]
    /\ UNCHANGED << kvConfig, kvStore, qVars >>

KVUpdate ==
    /\ QStep("kv")
    /\ \E k \in StateKeys, r \in Rewards, as \in ActionLists :
       \E n \in NextKeys(k) :
       \E a \in Range(as) :
          /\ kvTable' = kvUpdateQValue(kvTable, kvConfig, k, a, r, n, as)
          /\ lastOp' = [ NoOp EXCEPT !.store = "kv", !.op = "update", !.key = k,
                                     !.action = a, !.reward = r, !.next = n,
                                     !.actions = as ]
    /\ UNCHANGED << kvConfig, kvStore, qVars >>

KVSelect ==
    /\ QStep("kv")
    /\ \E k \in StateKeys, as \in ActionLists, rnd \in RandomDraws :
       \E idx \in (IF rnd < kvConfig.epsilon THEN DOMAIN as ELSE {1}) :
          /\ kvTable' = kvTouch(kvTable, k)
          /\ lastOp' = [ NoOp EXCEPT !.store = "kv", !.op = "select", !.key = k,
                                     !.actions = as, !.rnd = rnd, !.idx = idx,
                                     !.result = kvSelectAction(kvTable, kvConfig, k, as, rnd, idx) ]
    /\ UNCHANGED << kvConfig, kvStore, qVars >>

NextQ ==
    \/ QLoad \/ QSave \/ QSaveStringify \/ QSaveWrite
    \/ QGet \/ QSet \/ QUpdate \/ QSelect
    \/ KVLoad \/ KVSave \/ KVGet \/ KVSet \/ KVUpdate \/ KVSelect

SpecQ == InitQ /\ [][NextQ]_vars

(***************************************************************************)
(* experience.ts and ExperienceBufferKV.                                   *)
(***************************************************************************)
\* Array.prototype.slice(-n): the last n elements, and the whole array
\* when n is 0 (-0 is 0) or at least the length
SliceLast(xs, n) ==
    IF n = 0 \/ n >= Len(xs) THEN xs
    ELSE [ i \in 1..n |-> xs[Len(xs) - n + i] ]

\* addExperience removing the newest element instead of the oldest
addExperiencePop(exps, exp) ==
    LET pushed == Append(exps, exp)
    IN  IF Len(pushed) > MaxExperiences
        THEN [ i \in 1..(Len(pushed) - 1) |-> pushed[i] ]
        ELSE pushed

\* addExperience that drops the experience it is given
addExperienceDropped(exps, exp) == exps

\* experience.ts lines 48-62: push, then one shift when over MAX_EXPERIENCES
addExperience(exps, exp) ==
    LET pushed == Append(exps, exp)
    IN  IF Len(pushed) > MaxExperiences THEN Tail(pushed) ELSE pushed

\* ExperienceBufferKV.addExperience without the slice
kvAddExperienceNoSlice(exps, maxSize, exp) == Append(exps, exp)

\* experience-kv.ts lines 57-64: push, then slice(-maxSize) when over maxSize
kvAddExperience(exps, maxSize, exp) ==
    LET pushed == Append(exps, exp)
    IN  IF Len(pushed) > maxSize THEN SliceLast(pushed, maxSize) ELSE pushed

\* experience.ts lines 17-27
loadExperiences(file) == IF file = << >> THEN << >> ELSE file[1]

\* experience-kv.ts lines 25-40
kvLoadExperiences(stored, maxSize) ==
    IF stored = << >> THEN << >> ELSE SliceLast(stored[1], maxSize)

\* what the buffer held since it was last empty: the elements added
NoneAdded(fromEmpty) == [ fromEmpty |-> fromEmpty, items |-> << >> ]

EarlierExperiences == [ i \in 1..MaxExperiences |-> 100 + i ]
EarlierExpFiles == { << >>, << EarlierExperiences >> }

InitExp ==
    /\ qtable = << >> /\ config = DEFAULT_CONFIG /\ queriesProcessed = 0
    /\ qfile = << >> /\ qwrites = << >>
    /\ kvTable = EmptyTable /\ kvConfig = KV_CONFIG /\ kvStore = << >>
    /\ experiences = << >> /\ expwrites = << >>
    /\ kvExperiences = << >>
    /\ \/ /\ lastOp = [ NoOp EXCEPT !.store = "file" ]
          /\ expfile \in EarlierExpFiles /\ kvExpStore = << >>
       \/ /\ lastOp = [ NoOp EXCEPT !.store = "kv" ]
          /\ expfile = << >> /\ kvExpStore \in EarlierExpFiles
    /\ session = IdleSession
    /\ added = NoneAdded(TRUE)
    /\ opCount = 0

ExpStep(st, op) ==
    /\ lastOp.store = st
    /\ opCount < MaxExpOps
    /\ opCount' = opCount + 1
    /\ lastOp' = [ NoOp EXCEPT !.store = st, !.op = op ]
    /\ UNCHANGED << qVars, kvVars, session >>

\* the element added by the n-th operation
NewExperience == opCount + 1

ExpAdd ==
    /\ ExpStep("file", "add")
    /\ experiences' = addExperience(experiences, NewExperience)
    /\ added' = [ added EXCEPT !.items = Append(@, NewExperience) ]
    /\ UNCHANGED << expfile, expwrites, kvExpVars >>

ExpClear ==
    /\ ExpStep("file", "clear")
    /\ experiences' = << >>
    /\ added' = NoneAdded(TRUE)
    /\ UNCHANGED << expfile, expwrites, kvExpVars >>

ExpLoad ==
    /\ ExpStep("file", "load")
    /\ experiences' = loadExperiences(expfile)
    /\ added' = NoneAdded(loadExperiences(expfile) = << >>)
    /\ UNCHANGED << expfile, expwrites, kvExpVars >>

\* saveExperiences up to the awaited mkdir
ExpSave ==
    /\ ExpStep("file", "save")
    /\ expwrites = << >>
    /\ expwrites' = << [ phase |-> "mkdir", data |-> << >> ] >>
    /\ UNCHANGED << experiences, expfile, added, kvExpVars >>

\* mkdir has resolved: JSON.stringify(experiences) reads the array now
ExpSaveStringify ==
    /\ EventLoopFree
    /\ \E i \in DOMAIN expwrites :
          /\ expwrites[i].phase = "mkdir"
          /\ expwrites' = [ expwrites EXCEPT ![i] =
                              [ phase |-> "write", data |-> experiences ] ]
    /\ UNCHANGED << qVars, kvVars, experiences, expfile, kvExpVars,
                    session, lastOp, added, opCount >>

ExpSaveWrite ==
    /\ EventLoopFree
    /\ \E i \in DOMAIN expwrites :
          /\ expwrites[i].phase = "write"
          /\ expfile' = << expwrites[i].data >>
          /\ expwrites' = RemoveAt(expwrites, i)
    /\ UNCHANGED << qVars, kvVars, experiences, kvExpVars,
                    session, lastOp, added, opCount >>

KVExpAdd ==
    /\ ExpStep("kv", "add")
    /\ kvExperiences' = kvAddExperience(kvExperiences, MaxExperiences, NewExperience)
    /\ added' = [ added EXCEPT !.items = Append(@, NewExperience) ]
    /\ UNCHANGED << kvExpStore, expVars >>

KVExpClear ==
    /\ ExpStep("kv", "clear")
    /\ kvExperiences' = << >>
    /\ added' = NoneAdded(TRUE)
    /\ UNCHANGED << kvExpStore, expVars >>

KVExpLoad ==
    /\ ExpStep("kv", "load")
    /\ kvExperiences' = kvLoadExperiences(kvExpStore, MaxExperiences)
    /\ added' = NoneAdded(kvLoadExperiences(kvExpStore, MaxExperiences) = << >>)
    /\ UNCHANGED << kvExpStore, expVars >>

KVExpSave ==
    /\ ExpStep("kv", "save")
    /\ kvExpStore' = << kvExperiences >>
    /\ UNCHANGED << kvExperiences, added, expVars >>

\* the counts getRecentExperiences is called with
RecentCounts == 0..(MaxExperiences + 1)

\* experience.ts lines 81-83 and experience-kv.ts lines 127-129:
\* experiences.slice(-count)
getRecentExperiences(exps, count) == SliceLast(exps, count)

RecentStep(st, buffer) ==
    /\ lastOp.store = st
    /\ opCount < MaxExpOps
    /\ opCount' = opCount + 1
    /\ \E count \in RecentCounts :
          lastOp' = [ NoOp EXCEPT !.store = st, !.op = "recent", !.key = count,
                                  !.result = getRecentExperiences(buffer, count) ]
    /\ UNCHANGED << qVars, kvVars, expVars, kvExpVars, session, added >>

ExpRecent == RecentStep("file", experiences)

KVExpRecent == RecentStep("kv", kvExperiences)

NextExp ==
    \/ ExpAdd \/ ExpClear \/ ExpLoad \/ ExpSave \/ ExpSaveStringify \/ ExpSaveWrite
    \/ KVExpAdd \/ KVExpClear \/ KVExpLoad \/ KVExpSave
    \/ ExpRecent \/ KVExpRecent

SpecExp == InitExp /\ [][NextExp]_vars

(***************************************************************************)
(* The SQL engine's candidates.  A candidate is a query text; the model    *)
(* keeps of a text what the driver's functions read from it.  The texts    *)
(* have the shape                                                          *)
(*   SELECT <list> FROM t [WHERE <predicate>] [ORDER BY created_at DESC]   *)
(* with upper-case keywords, <list> being *, a list of plain columns or    *)
(* SUM(amount), and <predicate> one of                                     *)
(*   entity_eq  merchant_name = 'Coffee'    entity_in  merchant_name IN .. *)
(*   bare_eq    merchant = 'Coffee'         bare_in    merchant IN ..      *)
(*   amount     amount > 0                                                 *)
(* Scores and rewards are in thousandths, like the Q-values.               *)
(***************************************************************************)
Points(n) == n * 1000

\* the objective of the sessions: "show all coffee expenses ..." with a
\* timeframe, entity { type: "merchant", identifier: "Coffee" } and
\* constraints.mustInclude = ["merchant_name", "created_at"]
SQLObjective ==
    [ hasIntent |-> TRUE,
      intentAll |-> TRUE, intentExcept |-> FALSE, timeframe |-> TRUE,
      entityType |-> TRUE, identifier |-> TRUE,
      mustInclude |-> << "merchant_name", "created_at" >> ]

\* lower.includes(word) for the words the driver looks for
Includes(c, word) ==
    CASE word = "merchant_name" -> c.where \in { "entity_eq", "entity_in" }
      [] word = "created_at"    -> c.order
      [] word = "coffee"        -> c.where \in { "entity_eq", "entity_in", "bare_eq", "bare_in" }
      [] word = "where"         -> c.where # "none"
      [] word = "select *"      -> c.select = "star"
      [] OTHER                  -> FALSE

\* state.ts lines 8-42: the key joins the select columns, the where
\* predicates, the aggregations, group-by and order-by flags and the
\* objective hash (the same for all candidates of a session)
stateKey(c) == << c.select, c.ncols, c.where, c.order >>

\* actions.ts lines 51-102, in the order of the pushes
SQLActionOrder ==
    << "llm_policy", "add_column", "remove_column", "add_where", "modify_where",
       "fix_entity", "add_agg", "remove_agg", "add_order" >>

IsApplicable(c, objective, action) ==
    CASE action = "llm_policy"    -> TRUE
      [] action = "add_column"    -> c.select # "star"
      [] action = "remove_column" -> c.select = "cols"
      [] action = "add_where"     -> c.where = "none"
      [] action = "modify_where"  -> c.where \in { "entity_eq", "bare_eq" }
      [] action = "fix_entity"    -> objective.entityType
      [] action = "add_agg"       -> c.select # "agg"
      [] action = "remove_agg"    -> c.select = "agg"
      [] action = "add_order"     -> ~ c.order
      [] OTHER                    -> FALSE

\* the structural actions alone, without the LLM policy
getStructuralActions(c, objective) ==
    SelectSeq(Tail(SQLActionOrder), LAMBDA a : IsApplicable(c, objective, a))

getApplicableActions(c, objective) ==
    SelectSeq(SQLActionOrder, LAMBDA a : IsApplicable(c, objective, a))

\* actions.ts lines 111-126: ", amount" is appended to the list; a text
\* without SELECT ... FROM is returned as it is
addColumn(c) ==
    IF c.select = "none" THEN c
    ELSE IF c.select = "star"
    THEN [ c EXCEPT !.select = "cols", !.ncols = 2, !.colsLen = 10, !.len = @ + 9 ]
    ELSE [ c EXCEPT !.ncols = @ + 1, !.colsLen = @ + 8, !.len = @ + 8 ]

\* lines 131-150: without a column name the filter drops every column and
\* the list becomes *
removeColumn(c) ==
    IF c.select \in { "star", "none" } THEN c
    ELSE [ c EXCEPT !.select = "star", !.ncols = 1, !.colsLen = 1,
                    !.len = @ - c.colsLen + 1 ]

\* lines 155-162: " WHERE amount > 0" after the table name, when there is
\* a FROM clause
addWhereClause(c) ==
    IF c.where # "none" \/ c.select = "none" THEN c
    ELSE [ c EXCEPT !.where = "amount", !.len = @ + 17 ]

\* lines 167-177: col = 'v' becomes col IN ('v')
modifyWhereOperator(c) ==
    CASE c.where = "entity_eq" -> [ c EXCEPT !.where = "entity_in", !.len = @ + 3 ]
      [] c.where = "bare_eq"   -> [ c EXCEPT !.where = "bare_in", !.len = @ + 3 ]
      [] OTHER                 -> c

\* lines 182-190, without a predicate: the text from WHERE up to ORDER BY
\* or the end is removed
WhereLength(c) ==
    CASE c.where = "entity_eq" -> 30
      [] c.where = "entity_in" -> 33
      [] c.where = "bare_eq"   -> 25
      [] c.where = "bare_in"   -> 28
      [] c.where = "amount"    -> 16
      [] OTHER                 -> 0

removeWhereClause(c) ==
    IF c.where = "none" THEN c
    ELSE [ c EXCEPT !.where = "none",
                    !.len = @ - WhereLength(c) - (IF c.order THEN 1 ELSE 0) ]

\* lines 195-208: the list becomes SUM(amount)
addAggregation(c) ==
    IF c.select = "none" THEN c ELSE
    [ c EXCEPT !.select = "agg", !.ncols = 1, !.colsLen = 11,
               !.len = @ - c.colsLen + 11 ]

\* lines 213-219: SUM(amount) becomes *
removeAggregation(c) ==
    IF c.select # "agg" THEN c
    ELSE [ c EXCEPT !.select = "star", !.ncols = 1, !.colsLen = 1,
                    !.len = @ - c.colsLen + 1 ]

\* lines 224-231: " ORDER BY created_at DESC" at the end
addOrderBy(c) ==
    IF c.order THEN c
    ELSE [ c EXCEPT !.order = TRUE, !.len = @ + 25 ]

\* lines 236-256: a bare merchant becomes merchant_name
fixEntityColumn(c, objective) ==
    IF ~ objective.entityType THEN c
    ELSE CASE c.where = "bare_eq" -> [ c EXCEPT !.where = "entity_eq", !.len = @ + 5 ]
           [] c.where = "bare_in" -> [ c EXCEPT !.where = "entity_in", !.len = @ + 5 ]
           [] OTHER               -> c

\* an applyAction whose ADD_AGGREGATION writes the aggregate into any text
applyActionUnanchored(c, action, objective) ==
    CASE action = "add_column"    -> addColumn(c)
      [] action = "remove_column" -> removeColumn(c)
      [] action = "add_where"     -> addWhereClause(c)
      [] action = "modify_where"  -> modifyWhereOperator(c)
      [] action = "remove_where"  -> removeWhereClause(c)
      [] action = "add_agg"       -> [ c EXCEPT !.select = "agg", !.ncols = 1,
                                                !.colsLen = 11,
                                                !.len = @ - c.colsLen + 11 ]
      [] action = "remove_agg"    -> removeAggregation(c)
      [] action = "add_order"     -> addOrderBy(c)
      [] action = "fix_entity"    -> fixEntityColumn(c, objective)
      [] OTHER                    -> c

\* actions.ts lines 7-46; the driver passes no parameters
applyAction(c, action, objective) ==
    CASE action = "add_column"    -> addColumn(c)
      [] action = "remove_column" -> removeColumn(c)
      [] action = "add_where"     -> addWhereClause(c)
      [] action = "modify_where"  -> modifyWhereOperator(c)
      [] action = "remove_where"  -> removeWhereClause(c)
      [] action = "add_agg"       -> addAggregation(c)
      [] action = "remove_agg"    -> removeAggregation(c)
      [] action = "add_order"     -> addOrderBy(c)
      [] action = "fix_entity"    -> fixEntityColumn(c, objective)
      [] OTHER                    -> c

(***************************************************************************)
(* reward.ts                                                               *)
(***************************************************************************)
IncludedCount(c, fields) ==
    Cardinality({ i \in DOMAIN fields : Includes(c, fields[i]) })

\* lines 88-128
calculatePartialCredit(c, objective) ==
    Min2((IF objective.timeframe /\ Includes(c, "created_at") THEN Points(30) ELSE 0)
         + (IF objective.entityType /\ Includes(c, "merchant_name") THEN Points(30) ELSE 0)
         + (IF Len(objective.mustInclude) > 0
            THEN (IncludedCount(c, objective.mustInclude) * Points(40))
                     \div Len(objective.mustInclude)
            ELSE 0)
         + Points(10),
         Points(90))

\* lines 133-138
calculateSimplicityBonus(c) ==
    IF c.len < 100 THEN Points(15)
    ELSE IF c.len < 200 THEN Points(10)
    ELSE IF c.len < 300 THEN Points(5)
    ELSE 0 - Points(5)

\* lines 143-156
calculateSpecificityBonus(c) ==
    IF c.select = "star" THEN 0 - Points(5)
    ELSE IF c.ncols > 0 /\ c.ncols <= 5 THEN Points(5)
    ELSE 0

\* lines 161-179
calculateCostBonus(c) ==
    Points(10)
    - (IF Includes(c, "select *") THEN Points(5) ELSE 0)
    - (IF ~ Includes(c, "where") THEN Points(10) ELSE 0)
    - c.joins * Points(5)
    + (IF c.limit THEN Points(5) ELSE 0)

\* lines 270-307 with executionTime, rowCount and expectedRowCount
\* undefined, as the driver passes them
calculateExecutionBonus(hasErrors) ==
    IF hasErrors THEN 0 - Points(20)
    ELSE Max2(0 - Points(20), Min2(Points(20), 0))

\* lines 20-83
calculateReward(c, objective, passed) ==
    LET constraintScore == IF passed THEN Points(100)
                           ELSE calculatePartialCredit(c, objective)
        qualityScore == calculateSimplicityBonus(c) + calculateSpecificityBonus(c)
                        + calculateCostBonus(c) + calculateExecutionBonus(~ passed)
    IN  [ constraintScore |-> constraintScore, qualityScore |-> qualityScore,
          total |-> constraintScore + qualityScore ]

\* lines 198-265: the number of issues; explain.aggregation comes from the
\* explainQuery callback
validateQuerySemantics(c, objective, aggregation) ==
    (IF objective.intentExcept /\ objective.identifier
        /\ c.where \in { "entity_eq", "bare_eq" }
     THEN 1 ELSE 0)
    + (IF objective.intentAll /\ aggregation THEN 1 ELSE 0)
    + (IF objective.identifier /\ ~ Includes(c, "coffee") /\ ~ objective.intentExcept
       THEN 1 ELSE 0)

\* line 208: objective.intent.toLowerCase() throws a TypeError when the
\* objective has no intent
SemanticsThrow(objective) == ~ objective.hasIntent

\* a penalty taken from the total alone
applySemanticPenaltyToTotal(reward, issues) ==
    [ reward EXCEPT !.total = @ + issues * (0 - Points(15)) ]

\* optimizer.ts lines 142-150 and optimizerGeneric.ts: -15 per issue on
\* qualityScore and total
applySemanticPenalty(reward, issues) ==
    IF issues = 0 THEN reward
    ELSE [ reward EXCEPT !.qualityScore = @ + issues * (0 - Points(15)),
                         !.total = @ + issues * (0 - Points(15)) ]

(***************************************************************************)
(* The generic engine's candidates: an output is null or an array of       *)
(* numbers, [ null |-> .., items |-> .. ]; an analysis is what the         *)
(* analyzeOutput callback returned, undefined included.                    *)
(***************************************************************************)
NullOutput == [ null |-> TRUE, items |-> << >> ]
ArrayOutput(xs) == [ null |-> FALSE, items |-> xs ]

UndefinedAnalysis == [ defined |-> FALSE, hasTime |-> FALSE, executionTime |-> 0, custom |-> 0 ]
Analysis(t, custom) == [ defined |-> TRUE, hasTime |-> TRUE, executionTime |-> t, custom |-> custom ]

\* typeof output: arrays and null are both "object"
TypeOf(output) == "object"

\* generic/actions lines 229-243
isOutputEmpty(output) == output.null \/ Len(output.items) = 0

\* lines 187-224, for an array without nested items: (min(size / 100, 1) + 0) / 1.5
getOutputComplexity(output) ==
    IF output.null THEN 500
    ELSE (Min2(Len(output.items) * 10, 1000) * 1000) \div 1500

\* generic/state.ts lines 139-142: hashObject reads Object.keys(obj), which
\* throws a TypeError for null
hashObjectThrows(output) == output.null

\* generic/state.ts lines 36-93: the key hashes the objective hash, the
\* output hash, the output length and the empty flag
getStateKey(output) ==
    << output, IF output.null THEN 0 ELSE Len(output.items), isOutputEmpty(output) >>

\* generic/actions lines 40-72
genericApplicableActions(output, iteration) ==
    << "USE_GENERATOR" >>
    \o (IF ~ output.null /\ ~ isOutputEmpty(output)
        THEN << "PERTURB_OUTPUT", "REFINE" >>
             \o (IF getOutputComplexity(output) > 500 THEN << "SIMPLIFY" >> ELSE << >>)
             \o (IF getOutputComplexity(output) < 700 THEN << "EXPAND" >> ELSE << >>)
        ELSE << >>)
    \o (IF iteration > 3 THEN << "RESET" >> ELSE << >>)

\* lines 117-143: two positions drawn with Math.random are swapped
perturbOutput(output, i, j) ==
    IF output.null \/ Len(output.items) <= 2 THEN output
    ELSE ArrayOutput([ k \in DOMAIN output.items |->
                         IF k = i THEN output.items[j]
                         ELSE IF k = j THEN output.items[i]
                         ELSE output.items[k] ])

\* lines 148-173: the first floor(0.8 * length) items
simplifyOutput(output) ==
    IF output.null THEN output
    ELSE ArrayOutput(SubSeq(output.items, 1, (Len(output.items) * 8) \div 10))

\* an applyAction that refines in place: REFINE returns the output
genericApplyActionInPlace(output, action, i, j) ==
    CASE action \in { "USE_GENERATOR", "RESET", "EXPAND" }
             -> [ toGenerator |-> TRUE, output |-> output ]
      [] action = "PERTURB_OUTPUT"
             -> [ toGenerator |-> FALSE, output |-> perturbOutput(output, i, j) ]
      [] action = "SIMPLIFY"
             -> [ toGenerator |-> FALSE, output |-> simplifyOutput(output) ]
      [] OTHER
             -> [ toGenerator |-> FALSE, output |-> output ]

\* lines 85-112: toGenerator stands for the null that sends the driver to
\* the generator
genericApplyAction(output, action, i, j) ==
    CASE action \in { "USE_GENERATOR", "RESET", "REFINE", "EXPAND" }
             -> [ toGenerator |-> TRUE, output |-> output ]
      [] action = "PERTURB_OUTPUT"
             -> [ toGenerator |-> FALSE, output |-> perturbOutput(output, i, j) ]
      [] action = "SIMPLIFY"
             -> [ toGenerator |-> FALSE, output |-> simplifyOutput(output) ]
      [] OTHER
             -> [ toGenerator |-> FALSE, output |-> output ]

\* generic/reward lines 41-113; objective.expectedSize is not given
calculateGenericReward(passed, metrics) ==
    LET constraintScore == IF passed THEN Points(60) ELSE 0
        qualityScore ==
            (IF metrics.hasErrors THEN 0 - Points(30) ELSE Points(10))
            + (IF ~ metrics.hasTime THEN 0
               ELSE IF metrics.executionTime < 50 THEN Points(15)
               ELSE IF metrics.executionTime < 100 THEN Points(10)
               ELSE IF metrics.executionTime > 1000 THEN 0 - Points(10)
               ELSE 0)
            + metrics.custom
    IN  [ constraintScore |-> constraintScore, qualityScore |-> qualityScore,
          total |-> constraintScore + qualityScore ]

\* generic/reward lines 121-153: the number of issues; objective.minQuality
\* is not given
validateGenericSemantics(output, objective) ==
    (IF output.null THEN 1 ELSE 0)
    + (IF objective.expectedType # "" /\ TypeOf(output) # objective.expectedType
       THEN 1 ELSE 0)

\* optimizerGeneric.ts lines 200-206; reading a property of an undefined
\* analysis throws a TypeError
MetricsThrow(nextAnalysis) == ~ nextAnalysis.defined

executionMetrics(nextAnalysis, passed) ==
    [ hasTime |-> nextAnalysis.hasTime, executionTime |-> nextAnalysis.executionTime,
      hasErrors |-> ~ passed, custom |-> nextAnalysis.custom ]

(***************************************************************************)
(* The callbacks of a session.  The generator, the evaluator, explainQuery *)
(* and analyzeOutput are arguments of the driver: any result is possible,  *)
(* except in a session run with deterministic callbacks (env.det), where   *)
(* a result is a function of the callback's arguments.                     *)
(***************************************************************************)
\* SELECT * FROM transactions WHERE merchant_name = 'Coffee'
FilteredSQL ==
    [ select |-> "star", ncols |-> 1, colsLen |-> 1, where |-> "entity_eq",
      order |-> FALSE, len |-> 57, joins |-> 0, limit |-> FALSE ]

\* SELECT id, amount FROM transactions
UnfilteredSQL ==
    [ select |-> "cols", ncols |-> 2, colsLen |-> 10, where |-> "none",
      order |-> FALSE, len |-> 35, joins |-> 0, limit |-> FALSE ]

\* a query of more than 300 characters: SELECT * with a join, the filter on
\* merchant_name and ORDER BY created_at DESC
LongSQL ==
    [ select |-> "star", ncols |-> 1, colsLen |-> 1, where |-> "entity_eq",
      order |-> TRUE, len |-> 320, joins |-> 1, limit |-> FALSE ]

\* let currentSQL = ""
EmptySQL ==
    [ select |-> "none", ncols |-> 0, colsLen |-> 0, where |-> "none",
      order |-> FALSE, len |-> 0, joins |-> 0, limit |-> FALSE ]

GeneratedSQL == { FilteredSQL, UnfilteredSQL, LongSQL }

GeneratedOutputs == { NullOutput, ArrayOutput(<< 1, 2, 3 >>), ArrayOutput(<< >>) }

Analyses == { UndefinedAnalysis, Analysis(10, 0), Analysis(2000, 0) }

\* the positions Math.floor(Math.random() * length) yields when selectAction
\* explores
ExploreDraws(acts) == DOMAIN acts

\* the positions Math.random yields in perturbOutput
PerturbDraws == { << 1, 1 >>, << 1, 3 >> }

GenericObjective == [ expectedType |-> "" ]

\* the objectives a caller of the generic engine passes: without an
\* expected type, or expecting a string (the outputs are arrays)
GenericObjectives == { GenericObjective, [ expectedType |-> "string" ] }

\* rlTool.ts lines 168-279, the critic the SQL engine is run with: for an
\* objective with scope.filters the query must have a WHERE clause and
\* name every filter field; otherwise it must name the entity's column
\* (merchant_name); no aggregation for an intent with "all"
Failed(code) == [ passed |-> FALSE, code |-> code ]

evaluateSQL(c, aggregation, objective) ==
    IF Len(objective.filters) > 0
    THEN IF ~ Includes(c, "where") THEN Failed("MISSING_WHERE")
         ELSE IF \E i \in DOMAIN objective.filters : ~ Includes(c, objective.filters[i])
         THEN Failed("MISSING_FILTER_FIELD")
         ELSE IF objective.intentAll /\ aggregation THEN Failed("UNWANTED_AGGREGATION")
         ELSE [ passed |-> TRUE, code |-> "" ]
    ELSE IF ~ objective.entityType THEN Failed("UNKNOWN_ENTITY")
         ELSE IF ~ Includes(c, "merchant_name") THEN Failed("WRONG_COLUMN")
         ELSE IF objective.intentAll /\ aggregation THEN Failed("UNWANTED_AGGREGATION")
         ELSE [ passed |-> TRUE, code |-> "" ]

\* the callbacks of a session that are not deterministic
NoEnv == [ det |-> FALSE, first |-> 0, later |-> 0, passing |-> "" ]

\* deterministic callbacks: the generator answers a call without previous
\* output with candidate `first` and every other call with `later`; the
\* evaluator passes no candidate, some of them (the queries with a WHERE
\* clause, the arrays that start with 3), or all of them
PassingKinds == { "none", "some", "all" }

DetEnvs(engine) ==
    LET gs == IF engine = "sql" THEN GeneratedSQL ELSE GeneratedOutputs
    IN  { [ det |-> TRUE, first |-> f, later |-> l, passing |-> p ] :
              f \in gs, l \in gs, p \in PassingKinds }

\* the feedback the driver hands to the generator: the one of the last
\* evaluation, which was the evaluation of the current candidate
HandedFeedback(s) ==
    IF s.previousFeedback
    THEN evaluateSQL(s.currentOutput, s.currentOutput.select = "agg", s.objective).code
    ELSE ""

\* with passing = "filters" the evaluator is evaluateSQL and the generator
\* answers with candidate `later` when it is handed MISSING_FILTER_FIELD,
\* and with candidate `first` otherwise
GeneratorResults(s) ==
    IF s.env.passing = "filters"
    THEN { IF s.genFor = "next" /\ HandedFeedback(s) = "MISSING_FILTER_FIELD"
           THEN s.env.later ELSE s.env.first }
    ELSE IF s.env.det
    THEN { IF s.genFor = "current" THEN s.env.first ELSE s.env.later }
    ELSE IF s.engine = "sql" THEN GeneratedSQL ELSE GeneratedOutputs

EvaluatorResults(s, candidate) ==
    IF s.env.passing = "filters"
    THEN { evaluateSQL(candidate, candidate.select = "agg", s.objective).passed }
    ELSE IF s.env.det
    THEN { CASE s.env.passing = "none" -> FALSE
             [] s.env.passing = "all"  -> TRUE
             [] OTHER -> IF s.engine = "sql" THEN candidate.where # "none"
                         ELSE ~ isOutputEmpty(candidate) /\ candidate.items[1] = 3 }
    ELSE BOOLEAN

\* whether the evaluation carries feedback: it does for a candidate that
\* did not pass
FeedbackResults(passed) == { ~ passed }

\* explain.aggregation of the explainQuery callback
ExplainResults(s, candidate) ==
    IF s.env.det THEN { candidate.select = "agg" } ELSE BOOLEAN

AnalyzerResults(s, candidate) ==
    IF s.env.det THEN { Analysis(10, 0) } ELSE Analyses

(***************************************************************************)
(* optimizeSQL (optimizer.ts) and optimizeWithRL (optimizerGeneric.ts).    *)
(* A session runs on the event loop: it is interrupted only where it       *)
(* awaits the generator.  pc is "generate" while it awaits, "select" at    *)
(* the head of an iteration, "evaluate" when the next candidate is there,  *)
(* "returned" or "thrown" when the promise has settled.                    *)
(***************************************************************************)
ConvergenceThreshold(engine) == IF engine = "sql" THEN Points(100) ELSE Points(70)

\* a test of convergence that never succeeds
NeverReached(engine, passed, semanticsMatch, total) == FALSE

\* a test of convergence that leaves out the semantic validation
ReachedIgnoringSemantics(engine, passed, semanticsMatch, total) ==
    passed /\ total >= ConvergenceThreshold(engine)

\* optimizer.ts line 200, optimizerGeneric.ts lines 274-278
ConvergenceReached(engine, passed, semanticsMatch, total) ==
    passed /\ semanticsMatch /\ total >= ConvergenceThreshold(engine)

\* the converged field of the log entry, optimizer.ts line 196
LogConverged(engine, passed, semanticsMatch, total) ==
    passed /\ semanticsMatch /\ total >= ConvergenceThreshold(engine)

NoResult == << >>

NewSession(engine, maxIterations, env, run, restored, trace) ==
    [ pc |-> "idle", engine |-> engine, env |-> env,
      run |-> run, restored |-> restored, trace |-> trace,
      objective |-> IF engine = "sql" THEN SQLObjective ELSE GenericObjective,
      maxIterations |-> maxIterations, iteration |-> 1, genFor |-> "",
      currentOutput |-> IF engine = "sql" THEN EmptySQL ELSE NullOutput,
      nextOutput |-> IF engine = "sql" THEN EmptySQL ELSE NullOutput,
      previousFeedback |-> FALSE, finalReward |-> 0, iterationLogs |-> << >>,
      decays |-> 0,
      currentStateKey |-> << >>, applicableActions |-> << >>, selectedAction |-> "",
      status |-> "RUNNING", result |-> NoResult ]

NoTrace == [ actions |-> << >>, finalReward |-> 0 ]

KeyOf(engine, candidate) ==
    IF engine = "sql" THEN stateKey(candidate) ELSE getStateKey(candidate)

ApplicableOf(engine, candidate, objective, iteration) ==
    IF engine = "sql" THEN getApplicableActions(candidate, objective)
    ELSE genericApplicableActions(candidate, iteration)

\* the logged iteration with the largest total, the earliest of them
BestLogged(logs) ==
    CHOOSE i \in DOMAIN logs :
        /\ \A j \in DOMAIN logs : logs[i].total >= logs[j].total
        /\ \A j \in 1..(i - 1) : logs[j].total < logs[i].total

\* a return that hands back the best candidate of the session instead of
\* the last one
ReturnBestResult(s, status, output, iterations, finalReward, qt) ==
    /\ qtable' = qt
    /\ qwrites' = Append(qwrites, [ phase |-> "mkdir", qtable |-> qt, hyperparams |-> config ])
    /\ expwrites' = Append(expwrites, [ phase |-> "mkdir", data |-> << >> ])
    /\ config' = decayEpsilon(config)
    /\ queriesProcessed' = queriesProcessed + 1
    /\ session' =
          LET logs == s.iterationLogs
              best == IF logs = << >> THEN [ output |-> output, total |-> finalReward ]
                      ELSE logs[BestLogged(logs)]
          IN  [ s EXCEPT !.pc = "returned", !.status = status,
                         !.decays = @ + 1,
                         !.result = << [ output |-> best.output,
                                         iterations |-> iterations,
                                         finalReward |-> best.total ] >> ]

\* saveQTable(), saveExperiences(), decayEpsilon() and the return: both
\* saves run up to their first await, the table left by the session is qt
ReturnResult(s, status, output, iterations, finalReward, qt) ==
    /\ qtable' = qt
    /\ qwrites' = Append(qwrites, saveQTableSnapshot(qt, config))
    /\ expwrites' = Append(expwrites, [ phase |-> "mkdir", data |-> << >> ])
    /\ config' = decayEpsilon(config)
    /\ queriesProcessed' = queriesProcessed + 1
    /\ session' = [ s EXCEPT !.pc = "returned", !.status = status,
                             !.decays = @ + 1,
                             !.result = << [ output |-> output,
                                             iterations |-> iterations,
                                             finalReward |-> finalReward ] >> ]

\* app/api/rl/optimize/route.ts lines 149-156: the JSON the POST handler
\* answers with when optimizeWithRL has returned `result`
RouteResponse(result) ==
    [ optimizedOutput |-> result.output,
      iterations |-> result.iterations,
      finalReward |-> result.finalReward,
      converged |-> result.finalReward >= Points(70) ]

\* the loop is entered at iteration 1 when 1 <= maxIterations: the first
\* candidate is awaited from the generator
Begin(s) ==
    IF 1 <= s.maxIterations
    THEN /\ session' = [ s EXCEPT !.pc = "generate", !.genFor = "current" ]
         /\ UNCHANGED << qtable, config, queriesProcessed, qwrites, expwrites >>
    ELSE ReturnResult(s, "EXHAUSTED", s.currentOutput, s.maxIterations, s.finalReward, qtable)

Engines == { "sql", "generic" }

StartSession ==
    /\ session.pc = "idle"
    /\ \E engine \in Engines, m \in 0..MaxIter :
       \E o \in (IF engine = "sql" THEN { SQLObjective } ELSE GenericObjectives) :
          Begin([ NewSession(engine, m, NoEnv, 1, FALSE, NoTrace) EXCEPT !.objective = o ])
    /\ UNCHANGED << qfile, kvVars, experiences, expfile, kvExpVars, lastOp, added, opCount >>

\* the awaited generator call resolves
GeneratorReturns ==
    /\ session.pc = "generate"
    /\ \E c \in GeneratorResults(session) :
          session' = IF session.genFor = "current"
                     THEN [ session EXCEPT !.currentOutput = c, !.pc = "select" ]
                     ELSE [ session EXCEPT !.nextOutput = c, !.pc = "evaluate" ]
    /\ UNCHANGED << qVars, kvVars, expVars, kvExpVars, lastOp, added, opCount >>

\* steps 1 to 4 of an iteration: state, applicable actions, selected
\* action, and the transformation when the action is one
SelectStep ==
    /\ session.pc = "select"
    /\ LET cur  == session.currentOutput
           key  == KeyOf(session.engine, cur)
           acts == ApplicableOf(session.engine, cur, session.objective, session.iteration)
       IN  IF session.engine = "generic" /\ hashObjectThrows(cur)
           THEN session' = [ session EXCEPT !.pc = "thrown", !.status = "THROWN" ]
           ELSE
           \E rnd \in RandomDraws :
           \E idx \in (IF rnd <= config.epsilon THEN ExploreDraws(acts) ELSE { 1 }) :
           \E ij \in PerturbDraws :
              LET a == selectAction(qtable, config, key, acts, rnd, idx)
                  s == [ session EXCEPT !.currentStateKey = key,
                                        !.applicableActions = acts,
                                        !.selectedAction = a ]
                  g == genericApplyAction(cur, a, ij[1], ij[2])
              IN  session' =
                    IF session.engine = "sql"
                    THEN IF a = "llm_policy"
                         THEN [ s EXCEPT !.pc = "generate", !.genFor = "next" ]
                         ELSE [ s EXCEPT !.pc = "evaluate",
                                         !.nextOutput = applyAction(cur, a, session.objective) ]
                    ELSE IF g.toGenerator
                         THEN [ s EXCEPT !.pc = "generate", !.genFor = "next" ]
                         ELSE [ s EXCEPT !.pc = "evaluate", !.nextOutput = g.output ]
    /\ UNCHANGED << qVars, kvVars, expVars, kvExpVars, lastOp, added, opCount >>

\* the reward of the next candidate, the semantic penalty included
\* the value of the reward calculator for the next candidate
CalculatedReward(engine, candidate, objective, passed, analysis) ==
    IF engine = "sql"
    THEN calculateReward(candidate, objective, passed)
    ELSE calculateGenericReward(passed, executionMetrics(analysis, passed))

IssuesOf(engine, candidate, objective, aggregation) ==
    IF engine = "sql" THEN validateQuerySemantics(candidate, objective, aggregation)
    ELSE validateGenericSemantics(candidate, objective)

RewardOf(engine, candidate, objective, passed, aggregation, analysis) ==
    applySemanticPenalty(CalculatedReward(engine, candidate, objective, passed, analysis),
                         IssuesOf(engine, candidate, objective, aggregation))

\* crypto.randomBytes(8): an id no other experience has
NewExperienceId == opCount + 1

\* a step to the next iteration that carries the new candidate forward
\* only when its reward is above the one of the iteration before
NextIterationIfImproved(s, nxt, feedback) ==
    LET logs == s.iterationLogs
        improved == Len(logs) < 2 \/ logs[Len(logs)].total > logs[Len(logs) - 1].total
    IN  [ s EXCEPT !.currentOutput = IF improved THEN nxt ELSE @,
                   !.previousFeedback = feedback,
                   !.iteration = @ + 1 ]

\* optimizer.ts lines 220-221 and optimizerGeneric.ts lines 308-309, with
\* the iteration++ of the loop: s is the session after the log entry of the
\* iteration, nxt the candidate it evaluated
NextIteration(s, nxt, feedback) ==
    [ s EXCEPT !.currentOutput = nxt,
               !.previousFeedback = feedback,
               !.iteration = @ + 1 ]

\* steps 5 to 11 of an iteration: evaluation, reward, Bellman update,
\* experience, log entry, and then either the return of a converged
\* session, the next iteration, or the return after the last iteration
EvaluateStep ==
    /\ session.pc = "evaluate"
    /\ LET nxt == session.nextOutput
           e   == session.engine
       IN  \E passed \in EvaluatorResults(session, nxt) :
           \E feedback \in FeedbackResults(passed) :
           \E aggregation \in (IF e = "sql" THEN ExplainResults(session, nxt) ELSE { FALSE }) :
           \E analysis \in (IF e = "sql" THEN { UndefinedAnalysis }
                            ELSE AnalyzerResults(session, nxt)) :
              IF \/ e = "sql" /\ SemanticsThrow(session.objective)
                 \/ e = "generic" /\ MetricsThrow(analysis)
                 \/ e = "generic" /\ hashObjectThrows(nxt)
              THEN /\ session' = [ session EXCEPT
                                     !.pc = "thrown",
                                     !.status = IF e = "generic" /\ MetricsThrow(analysis)
                                                THEN "ANALYSIS_TYPE_ERROR" ELSE "THROWN" ]
                   /\ UNCHANGED << qtable, config, queriesProcessed, qwrites,
                                   experiences, expwrites, opCount >>
              ELSE LET issues  == IssuesOf(e, nxt, session.objective, aggregation)
                       reward  == RewardOf(e, nxt, session.objective, passed,
                                           aggregation, analysis)
                       nextKey == KeyOf(e, nxt)
                       qt == updateQValue(qtable, config, session.currentStateKey,
                                          session.selectedAction, reward.total, nextKey,
                                          session.applicableActions)
                       experience ==
                           [ id |-> NewExperienceId,
                             stateKey |-> session.currentStateKey,
                             action |-> session.selectedAction,
                             reward |-> reward.total,
                             nextStateKey |-> nextKey,
                             terminal |-> passed ]
                       entry ==
                           [ iteration |-> session.iteration,
                             output |-> nxt,
                             action |-> session.selectedAction,
                             passed |-> passed,
                             semanticMatch |-> (issues = 0),
                             issues |-> issues,
                             total |-> reward.total,
                             constraintScore |-> reward.constraintScore,
                             qualityScore |-> reward.qualityScore,
                             calculated |-> CalculatedReward(e, nxt, session.objective,
                                                             passed, analysis),
                             converged |-> LogConverged(e, passed, issues = 0, reward.total) ]
                       s == [ session EXCEPT !.finalReward = reward.total,
                                             !.iterationLogs = Append(@, entry) ]
                       advanced == NextIteration(s, nxt, feedback)
                   IN  /\ experiences' = addExperience(experiences, experience)
                       /\ opCount' = opCount + 1
                       /\ IF ConvergenceReached(e, passed, issues = 0, reward.total)
                          THEN ReturnResult(s, "CONVERGED", nxt, s.iteration,
                                            reward.total, qt)
                          ELSE IF advanced.iteration <= advanced.maxIterations
                          THEN /\ session' =
                                     [ advanced EXCEPT
                                         !.pc = IF e = "generic" /\ nxt.null
                                                THEN "generate" ELSE "select",
                                         !.genFor = "current" ]
                               /\ qtable' = qt
                               /\ UNCHANGED << config, queriesProcessed, qwrites, expwrites >>
                          ELSE ReturnResult(advanced, "EXHAUSTED", advanced.currentOutput,
                                            advanced.maxIterations, advanced.finalReward, qt)
    /\ UNCHANGED << qfile, kvVars, expfile, kvExpVars, lastOp, added >>

\* a process that has just started: nothing persisted, nothing learned
Init ==
    /\ qtable = << >> /\ config = DEFAULT_CONFIG /\ queriesProcessed = 0
    /\ qfile = << >> /\ qwrites = << >>
    /\ kvTable = EmptyTable /\ kvConfig = KV_CONFIG /\ kvStore = << >>
    /\ experiences = << >> /\ expfile = << >> /\ expwrites = << >>
    /\ kvExperiences = << >> /\ kvExpStore = << >>
    /\ session = NewSession("sql", 0, NoEnv, 1, FALSE, NoTrace)
    /\ lastOp = NoOp
    /\ added = NoneAdded(TRUE)
    /\ opCount = 0

Next ==
    \/ StartSession
    \/ GeneratorReturns
    \/ SelectStep
    \/ EvaluateStep
    \/ QSaveStringify
    \/ QSaveWrite
    \/ ExpSaveStringify
    \/ ExpSaveWrite

Spec == Init /\ [][Next]_vars

(***************************************************************************)
(* SpecDet: two sessions of the same objective, one after the other in the *)
(* same process, with epsilon 0 and deterministic callbacks.  Before the   *)
(* second session the process may call loadQTable(), which restores the    *)
(* Q-table and the hyperparameters of the persisted file.                  *)
(***************************************************************************)
\* hyperparameters of pure exploitation: epsilon 0, kept at 0 by decayEpsilon
DetConfig == [ DEFAULT_CONFIG EXCEPT !.epsilon = 0, !.epsilonMin = 0 ]

\* the file the process was started from
DetFile == << [ hyperparams |-> DetConfig, qtable |-> << >> ] >>

InitDet ==
    /\ qtable = loadQTableMap(DetFile)
    /\ config = loadQTableConfig(DetFile, DEFAULT_CONFIG)
    /\ queriesProcessed = 0
    /\ qfile = DetFile /\ qwrites = << >>
    /\ kvTable = EmptyTable /\ kvConfig = KV_CONFIG /\ kvStore = << >>
    /\ experiences = << >> /\ expfile = << >> /\ expwrites = << >>
    /\ kvExperiences = << >> /\ kvExpStore = << >>
    /\ session = NewSession("sql", 0, NoEnv, 1, FALSE, NoTrace)
    /\ lastOp = NoOp
    /\ added = NoneAdded(TRUE)
    /\ opCount = 0

ActionsOf(logs) == [ i \in DOMAIN logs |-> logs[i].action ]

StartFirstRun ==
    /\ session.pc = "idle"
    /\ \E engine \in Engines, m \in 1..MaxIter :
       \E env \in DetEnvs(engine) :
          Begin(NewSession(engine, m, env, 1, FALSE, NoTrace))
    /\ UNCHANGED << qfile, kvVars, experiences, expfile, kvExpVars, lastOp, added, opCount >>

\* the second call of the driver with the same arguments; reload says
\* whether loadQTable() is called before it
StartSecondRun ==
    /\ session.pc = "returned"
    /\ session.run = 1
    /\ \E reload \in BOOLEAN :
          LET qt  == IF reload THEN loadQTableMap(qfile) ELSE qtable
              cfg == IF reload THEN loadQTableConfig(qfile, config) ELSE config
              trace == [ actions |-> ActionsOf(session.iterationLogs),
                         finalReward |-> session.result[1].finalReward ]
              sameStart == qt = loadQTableMap(DetFile) /\ cfg = DetConfig
          IN  /\ qtable' = qt
              /\ config' = cfg
              /\ session' = [ NewSession(session.engine, session.maxIterations,
                                         session.env, 2, sameStart, trace)
                                EXCEPT !.pc = "generate", !.genFor = "current" ]
    /\ UNCHANGED << queriesProcessed, qfile, qwrites, kvVars, expVars, kvExpVars,
                    lastOp, added, opCount >>

NextDet ==
    \/ StartFirstRun
    \/ StartSecondRun
    \/ GeneratorReturns
    \/ SelectStep
    \/ EvaluateStep
    \/ QSaveStringify
    \/ QSaveWrite
    \/ ExpSaveStringify
    \/ ExpSaveWrite

SpecDet == InitDet /\ [][NextDet]_vars

(***************************************************************************)
(* The worker's fetch handler (rl-worker index.ts): one request builds a   *)
(* QLearningKV, loads the Q-table from KV, generates a first output and    *)
(* runs its own optimisation loop.  An output is kept as what              *)
(* evaluateOutput reads from it: how many of the mustInclude terms and of  *)
(* the mustAvoid terms it contains and whether it exceeds maxLength.       *)
(***************************************************************************)
\* index.ts line 57
WorkerActions ==
    << "refine_clarity", "adjust_tone", "add_details", "simplify", "restructure" >>

\* index.ts line 58
WorkerMaxIterations == 6

\* index.ts lines 73 and 118
WorkerThreshold == 70

\* objective.constraints of the request: three mustInclude terms, one
\* mustAvoid term and a maxLength
WorkerConstraints == [ mustInclude |-> 3, mustAvoid |-> 1, hasMaxLength |-> TRUE ]

WorkerOutput(included, avoided, tooLong) ==
    [ included |-> included, avoided |-> avoided, tooLong |-> tooLong ]

\* index.ts lines 172-204, in points
evaluateOutput(output, constraints) ==
    LET score == 50
                 + 10 * output.included
                 - 15 * (constraints.mustInclude - output.included)
                 - 20 * output.avoided
                 - (IF constraints.hasMaxLength /\ output.tooLong THEN 10 ELSE 0)
    IN  Max2(0, Min2(100, score))

\* the outputs the model lets generateOutput return: rewards 80, 55 and 45
WorkerOutputs ==
    { WorkerOutput(3, 0, FALSE), WorkerOutput(2, 0, FALSE), WorkerOutput(2, 0, TRUE) }

\* index.ts lines 206-210: the state is a string built from the request
\* alone, the same in every iteration
WorkerState == 1

\* the positions Math.floor(Math.random() * 5) yields when the worker explores
WorkerExploreDraws == { 2 }

\* KV entries an earlier request can have left
EarlierWorkerStores ==
    { << >>,
      << [ qTable |-> [ k \in { WorkerState } |->
                          [ a \in { "adjust_tone" } |-> 40000 ] ],
           epsilon |-> 150 ] >> }

NewRequest ==
    [ pc |-> "load", engine |-> "worker", status |-> "RUNNING",
      iterations |-> 0, finalReward |-> 0, reward |-> 0,
      currentOutput |-> WorkerOutput(0, 0, FALSE), selectedAction |-> "",
      decays |-> 0, result |-> NoResult ]

InitWorker ==
    /\ qtable = << >> /\ config = DEFAULT_CONFIG /\ queriesProcessed = 0
    /\ qfile = << >> /\ qwrites = << >>
    /\ kvTable = EmptyTable /\ kvConfig = KV_CONFIG
    /\ kvStore \in EarlierWorkerStores
    /\ experiences = << >> /\ expfile = << >> /\ expwrites = << >>
    /\ kvExperiences = << >> /\ kvExpStore = << >>
    /\ session = IdleSession
    /\ lastOp = NoOp
    /\ added = NoneAdded(TRUE)
    /\ opCount = 0

WorkerUnchanged ==
    UNCHANGED << qVars, expVars, kvExpVars, lastOp, added, opCount >>

\* lines 33-48: a POST request arrives, a QLearningKV is constructed with
\* the configuration of lines 39-45 and loadQTable() is awaited
WorkerFetch ==
    /\ session.pc = "idle"
    /\ session' = NewRequest
    /\ kvTable' = EmptyTable
    /\ kvConfig' = KV_CONFIG
    /\ UNCHANGED kvStore
    /\ WorkerUnchanged

\* loadQTable() resolves: with the stored table, or with an empty one when
\* the KV read failed (lines 271-274)
WorkerLoaded ==
    /\ session.pc = "load" /\ session.engine = "worker"
    /\ \E ok \in BOOLEAN :
          /\ kvTable' = IF ok THEN kvLoadTable(kvStore) ELSE EmptyTable
          /\ kvConfig' = IF ok THEN kvLoadConfig(kvStore, kvConfig) ELSE kvConfig
    /\ session' = [ session EXCEPT !.pc = "generate" ]
    /\ UNCHANGED kvStore
    /\ WorkerUnchanged

\* the catch of lines 125-134: a response with status 500
WorkerError(s) ==
    [ s EXCEPT !.pc = "returned", !.status = "ERROR",
               !.result = << [ error |-> TRUE ] >> ]

\* lines 54-60: the first output arrives, or generateOutput rejects
WorkerGenerated ==
    /\ session.pc = "generate" /\ session.engine = "worker"
    /\ \/ \E o \in WorkerOutputs :
             session' = [ session EXCEPT !.pc = "loop", !.currentOutput = o ]
       \/ session' = WorkerError(session)
    /\ UNCHANGED kvVars
    /\ WorkerUnchanged

\* lines 62-87: the loop test, the evaluation of the current output, the
\* break of a converged session, and the selection of an action up to the
\* awaited generateOutput; selectAction reads through getQValue, which
\* creates the entry of the state
WorkerIterate ==
    /\ session.pc = "loop" /\ session.engine = "worker"
    /\ IF session.iterations < WorkerMaxIterations
       THEN LET reward == evaluateOutput(session.currentOutput, WorkerConstraints)
                s == [ session EXCEPT !.iterations = @ + 1,
                                      !.reward = reward,
                                      !.finalReward = reward ]
            IN  IF reward >= WorkerThreshold
                THEN /\ session' = [ s EXCEPT !.pc = "save", !.status = "CONVERGED" ]
                     /\ UNCHANGED kvVars
                ELSE \E rnd \in RandomDraws :
                     \E idx \in (IF rnd < kvConfig.epsilon THEN WorkerExploreDraws
                                 ELSE { 1 }) :
                        /\ session' =
                             [ s EXCEPT !.pc = "regenerate",
                                        !.selectedAction =
                                            kvSelectAction(kvTable, kvConfig, WorkerState,
                                                           WorkerActions, rnd, idx) ]
                        /\ kvTable' = kvTouch(kvTable, WorkerState)
                        /\ UNCHANGED << kvConfig, kvStore >>
       ELSE /\ session' = [ session EXCEPT !.pc = "save", !.status = "EXHAUSTED" ]
            /\ UNCHANGED kvVars
    /\ WorkerUnchanged

\* lines 87-106: the new output arrives (or generateOutput rejects), the
\* Q-value is updated with the same state as next state, the better output
\* is kept, and epsilon is decayed
WorkerRegenerated ==
    /\ session.pc = "regenerate" /\ session.engine = "worker"
    /\ \/ \E o \in WorkerOutputs :
             LET newReward == evaluateOutput(o, WorkerConstraints)
                 accepted  == newReward > session.reward
             IN  /\ kvTable' = kvUpdateQValue(kvTable, kvConfig, WorkerState,
                                              session.selectedAction, Points(newReward),
                                              WorkerState, WorkerActions)
                 /\ kvConfig' = kvDecayEpsilon(kvConfig)
                 /\ session' =
                      [ session EXCEPT
                          !.pc = "loop",
                          !.currentOutput = IF accepted THEN o ELSE @,
                          !.finalReward = IF accepted THEN newReward ELSE @,
                          !.decays = @ + 1 ]
       \/ /\ session' = WorkerError(session)
          /\ UNCHANGED << kvTable, kvConfig >>
    /\ UNCHANGED kvStore
    /\ WorkerUnchanged

\* lines 110-123: saveQTable() is awaited (a failed put is caught inside it)
\* and the response is built
WorkerResponds ==
    /\ session.pc = "save" /\ session.engine = "worker"
    /\ \E ok \in BOOLEAN :
          kvStore' = IF ok THEN << kvToSave(kvTable, kvConfig) >> ELSE kvStore
    /\ session' =
         [ session EXCEPT
             !.pc = "returned",
             !.result = << [ error |-> FALSE,
                             optimizedOutput |-> session.currentOutput,
                             iterations |-> session.iterations,
                             finalReward |-> session.finalReward,
                             converged |-> session.finalReward >= WorkerThreshold,
                             epsilon |-> kvConfig.epsilon ] >> ]
    /\ UNCHANGED << kvTable, kvConfig >>
    /\ WorkerUnchanged

NextWorker ==
    \/ WorkerFetch
    \/ WorkerLoaded
    \/ WorkerGenerated
    \/ WorkerIterate
    \/ WorkerRegenerated
    \/ WorkerResponds

SpecWorker == InitWorker /\ [][NextWorker]_vars

(***************************************************************************)
(* SpecDecay: decayEpsilon() called again and again on a store whose       *)
(* hyperparameters are drawn from [0, 1].  The values are chosen so that   *)
(* every product of the runs is a whole number of thousandths.             *)
(***************************************************************************)
\* number of decayEpsilon calls in one run
MaxDecays == 3

InitialEpsilons == { 0, 160, 800 }
EpsilonMins == { 0, 10, 300 }
EpsilonDecays == { 0, 500, 1000 }

DecayOp(st, epsilon0) == [ store |-> st, op |-> "decay", epsilon0 |-> epsilon0 ]

InitDecay ==
    /\ qtable = << >> /\ queriesProcessed = 0
    /\ qfile = << >> /\ qwrites = << >>
    /\ kvTable = EmptyTable /\ kvStore = << >>
    /\ experiences = << >> /\ expfile = << >> /\ expwrites = << >>
    /\ kvExperiences = << >> /\ kvExpStore = << >>
    /\ session = IdleSession
    /\ added = NoneAdded(TRUE)
    /\ opCount = 0
    /\ \E e0 \in InitialEpsilons, m \in EpsilonMins, dc \in EpsilonDecays :
          \/ /\ lastOp = DecayOp("file", e0)
             /\ config = [ DEFAULT_CONFIG EXCEPT !.epsilon = e0, !.epsilonMin = m,
                                                 !.epsilonDecay = dc ]
             /\ kvConfig = KV_CONFIG
          \/ /\ lastOp = DecayOp("kv", e0)
             /\ config = DEFAULT_CONFIG
             /\ kvConfig = [ KV_CONFIG EXCEPT !.epsilon = e0, !.minEpsilon = m,
                                              !.epsilonDecay = dc ]

\* qlearning.ts lines 176-184
QDecay ==
    /\ lastOp.store = "file"
    /\ opCount < MaxDecays
    /\ opCount' = opCount + 1
    /\ queriesProcessed' = queriesProcessed + 1
    /\ config' = decayEpsilon(config)
    /\ UNCHANGED << qtable, qfile, qwrites, kvVars, expVars, kvExpVars,
                    session, lastOp, added >>

\* QLearningKV.decayEpsilon, index.ts lines 375-380
KVDecay ==
    /\ lastOp.store = "kv"
    /\ opCount < MaxDecays
    /\ opCount' = opCount + 1
    /\ kvConfig' = kvDecayEpsilon(kvConfig)
    /\ UNCHANGED << qVars, kvTable, kvStore, expVars, kvExpVars,
                    session, lastOp, added >>

NextDecay == QDecay \/ KVDecay

SpecDecay == InitDecay /\ [][NextDecay]_vars

(***************************************************************************)
(* SpecFaults: the sessions of Spec, with callers that pass an objective   *)
(* validateObjective (lib/objective/validate.ts) calls invalid, and with a *)
(* generator whose promise can reject (rlTool.ts: the fetch of line 130 or *)
(* res.json() of line 146 fails).                                          *)
(***************************************************************************)
\* objectives without intent, without scope, and without constraints
NoIntentObjective == [ SQLObjective EXCEPT !.hasIntent = FALSE, !.intentAll = FALSE ]
NoScopeObjective ==
    [ SQLObjective EXCEPT !.timeframe = FALSE, !.entityType = FALSE, !.identifier = FALSE ]
NoConstraintsObjective == [ SQLObjective EXCEPT !.mustInclude = << >> ]

MalformedObjectives == { NoIntentObjective, NoScopeObjective, NoConstraintsObjective }

\* optimizeSQL(objective, ...) called with a malformed objective: lines
\* 57-62 read loopPolicy.maxIterations and enter the loop
StartMalformed ==
    /\ session.pc = "idle"
    /\ \E m \in 1..MaxIter, objective \in MalformedObjectives :
          Begin([ NewSession("sql", m, NoEnv, 1, FALSE, NoTrace)
                    EXCEPT !.objective = objective ])
    /\ UNCHANGED << qfile, kvVars, experiences, expfile, kvExpVars, lastOp, added, opCount >>

\* the awaited generator call rejects: optimizer.ts lines 68 and 94 and
\* optimizerGeneric.ts lines 114, 150 and 169 await it outside any try
GeneratorRejects ==
    /\ session.pc = "generate"
    /\ session' = [ session EXCEPT !.pc = "thrown", !.status = "GENERATOR_ERROR" ]
    /\ UNCHANGED << qVars, kvVars, expVars, kvExpVars, lastOp, added, opCount >>

NextFaults ==
    \/ StartSession
    \/ StartMalformed
    \/ GeneratorReturns
    \/ GeneratorRejects
    \/ SelectStep
    \/ EvaluateStep
    \/ QSaveStringify
    \/ QSaveWrite
    \/ ExpSaveStringify
    \/ ExpSaveWrite

SpecFaults == Init /\ [][NextFaults]_vars

(***************************************************************************)
(* SpecStore: a process that has loaded a saved Q-table runs a session of  *)
(* optimizeSQL with deterministic callbacks; its saves can fail.  A second *)
(* process is started afterwards: its loads at module import (qlearning.ts *)
(* line 248, experience.ts line 166) succeed or fail, and it runs the same *)
(* session again.                                                          *)
(***************************************************************************)
\* the Q-table an earlier process learned and saved, with epsilon 0
StoreTable ==
    << << stateKey(UnfilteredSQL), [ a \in { "add_where" } |-> 50000 ] >> >>

StoreFile == << [ hyperparams |-> DetConfig, qtable |-> StoreTable ] >>

\* the catch blocks of loadQTable (qlearning.ts lines 49-52) and of
\* loadExperiences (experience.ts lines 23-26)
loadQTableFailed(cfg) == [ qtable |-> << >>, config |-> cfg ]
loadExperiencesFailed == << >>

InitStore ==
    /\ qtable = StoreTable /\ config = DetConfig /\ queriesProcessed = 0
    /\ qfile = StoreFile /\ qwrites = << >>
    /\ kvTable = EmptyTable /\ kvConfig = KV_CONFIG /\ kvStore = << >>
    /\ experiences = << >> /\ expfile = << >> /\ expwrites = << >>
    /\ kvExperiences = << >> /\ kvExpStore = << >>
    /\ session = NewSession("sql", 0, NoEnv, 1, FALSE, NoTrace)
    /\ lastOp = NoOp
    /\ added = NoneAdded(TRUE)
    /\ opCount = 0

StoreFirstRun ==
    /\ session.pc = "idle"
    /\ \E m \in 1..MaxIter, env \in DetEnvs("sql") :
          Begin(NewSession("sql", m, env, 1, FALSE, NoTrace))
    /\ UNCHANGED << qfile, kvVars, experiences, expfile, kvExpVars, lastOp, added, opCount >>

\* mkdir or writeFile of a pending saveQTable() rejects: the catch of
\* lines 79-81 logs the error
QSaveFails ==
    /\ EventLoopFree
    /\ \E i \in DOMAIN qwrites : qwrites' = RemoveAt(qwrites, i)
    /\ lastOp' = [ lastOp EXCEPT !.result = "save_failed" ]
    /\ UNCHANGED << qtable, config, queriesProcessed, qfile, kvVars, expVars, kvExpVars,
                    session, added, opCount >>

\* the same for saveExperiences(), experience.ts lines 40-42
ExpSaveFails ==
    /\ EventLoopFree
    /\ \E i \in DOMAIN expwrites : expwrites' = RemoveAt(expwrites, i)
    /\ lastOp' = [ lastOp EXCEPT !.result = "save_failed" ]
    /\ UNCHANGED << qVars, kvVars, experiences, expfile, kvExpVars,
                    session, added, opCount >>

\* the process ends and a new one imports the modules: both loads settle,
\* each with success or failure, and the driver is called with the
\* arguments of the first session
StoreSecondProcess ==
    /\ session.pc = "returned"
    /\ session.run = 1
    /\ \E qOk \in BOOLEAN, expOk \in BOOLEAN :
          LET failed == loadQTableFailed(DEFAULT_CONFIG)
              trace == [ actions |-> ActionsOf(session.iterationLogs),
                         finalReward |-> session.result[1].finalReward ]
          IN  /\ qtable' = IF qOk THEN loadQTableMap(qfile) ELSE failed.qtable
              /\ config' = IF qOk THEN loadQTableConfig(qfile, DEFAULT_CONFIG)
                           ELSE failed.config
              /\ experiences' = IF expOk THEN loadExperiences(expfile)
                                ELSE loadExperiencesFailed
              /\ lastOp' = [ lastOp EXCEPT !.op = IF qOk THEN "load" ELSE "load_failed" ]
              /\ session' = [ NewSession(session.engine, session.maxIterations,
                                         session.env, 2, qfile = StoreFile, trace)
                                EXCEPT !.pc = "generate", !.genFor = "current" ]
    /\ queriesProcessed' = 0
    /\ qwrites' = << >>
    /\ expwrites' = << >>
    /\ UNCHANGED << qfile, kvVars, expfile, kvExpVars, added, opCount >>

NextStore ==
    \/ StoreFirstRun
    \/ StoreSecondProcess
    \/ GeneratorReturns
    \/ SelectStep
    \/ EvaluateStep
    \/ QSaveStringify
    \/ QSaveWrite
    \/ QSaveFails
    \/ ExpSaveStringify
    \/ ExpSaveWrite
    \/ ExpSaveFails

SpecStore == InitStore /\ [][NextStore]_vars

(***************************************************************************)
(* SpecConc: two sessions at the same time against one store.  With the    *)
(* file-backed store they are two optimizeSQL calls in one process: they   *)
(* share the module-level Map and interleave at their awaits.  With the    *)
(* worker they are two requests: each builds its own QLearningKV, loads    *)
(* the KV entry, updates its own table and puts it back.                   *)
(***************************************************************************)
\* Bellman updates of one session
MaxConcUpdates == 2

ConcClients == { 1, 2 }

\* a session of SpecConc: `table` is the qTable of its QLearningKV, `saved`
\* the table it handed to its save
ConcClient(pc) ==
    [ pc |-> pc, key |-> 0, table |-> EmptyTable, cfg |-> KV_CONFIG,
      updates |-> 0, saved |-> << >> ]

ConcOp(st, writer) == [ store |-> st, op |-> "conc", writer |-> writer ]

\* tables in one shape
PlainOf(qt) == [ k \in KeysOf(qt) |-> ActionMapOf(qt, k) ]

InitConc ==
    /\ qtable = << >> /\ config = DEFAULT_CONFIG /\ queriesProcessed = 0
    /\ qfile = << >> /\ qwrites = << >>
    /\ kvTable = EmptyTable /\ kvConfig = KV_CONFIG
    /\ kvStore \in EarlierWorkerStores
    /\ experiences = << >> /\ expfile = << >> /\ expwrites = << >>
    /\ kvExperiences = << >> /\ kvExpStore = << >>
    /\ added = NoneAdded(TRUE)
    /\ opCount = 0
    /\ \/ /\ lastOp = ConcOp("file", 0)
          /\ kvStore = << >>
          /\ session = [ pc |-> "idle",
                         clients |-> [ i \in ConcClients |-> ConcClient("run") ] ]
       \/ /\ lastOp = ConcOp("kv", 0)
          /\ session = [ pc |-> "idle",
                         clients |-> [ i \in ConcClients |-> ConcClient("load") ] ]

ConcUnchanged ==
    UNCHANGED << expVars, kvExpVars, kvTable, kvConfig, added, opCount >>

\* steps 1-10 of an iteration of optimizeSQL, between two awaits: the
\* Bellman update on the shared Map
ConcUpdate(i) ==
    /\ lastOp.store = "file"
    /\ session.clients[i].pc = "run"
    /\ session.clients[i].updates < MaxConcUpdates
    /\ \E k \in StateKeys, r \in Rewards :
          qtable' = updateQValue(qtable, config, k, "llm_policy", r, k,
                                 << "llm_policy", "add_where" >>)
    /\ session' = [ session EXCEPT !.clients[i].updates = @ + 1 ]
    /\ UNCHANGED << config, queriesProcessed, qfile, qwrites, kvStore, lastOp >>
    /\ ConcUnchanged

\* the end of optimizeSQL: saveQTable() up to its first await,
\* decayEpsilon() and the return
ConcReturn(i) ==
    /\ lastOp.store = "file"
    /\ session.clients[i].pc = "run"
    /\ session.clients[i].updates > 0
    /\ LET w == saveQTableSnapshot(qtable, config)
       IN  qwrites' = Append(qwrites,
                             [ x \in DOMAIN w \cup { "owner" } |->
                                 IF x = "owner" THEN i ELSE w[x] ])
    /\ config' = decayEpsilon(config)
    /\ queriesProcessed' = queriesProcessed + 1
    /\ session' = [ session EXCEPT !.clients[i].pc = "done",
                                   !.clients[i].saved = << PlainOf(qtable) >> ]
    /\ UNCHANGED << qtable, qfile, kvStore, lastOp >>
    /\ ConcUnchanged

\* the writeFile of a pending save completes
ConcWrite ==
    /\ lastOp.store = "file"
    /\ \E j \in DOMAIN qwrites :
          /\ qwrites[j].phase = "write"
          /\ qfile' = << PersistedOf(qwrites[j]) >>
          /\ qwrites' = RemoveAt(qwrites, j)
          /\ lastOp' = ConcOp("file", qwrites[j].owner)
    /\ UNCHANGED << qtable, config, queriesProcessed, kvStore, session >>
    /\ ConcUnchanged

\* index.ts lines 47-48: new QLearningKV and the awaited loadQTable()
ConcKVLoad(i) ==
    /\ lastOp.store = "kv"
    /\ session.clients[i].pc = "load"
    /\ \E k \in { WorkerState, WorkerState + 1 } :
          session' = [ session EXCEPT
                         !.clients[i].pc = "run",
                         !.clients[i].key = k,
                         !.clients[i].table = kvLoadTable(kvStore),
                         !.clients[i].cfg = kvLoadConfig(kvStore, KV_CONFIG) ]
    /\ UNCHANGED << qVars, kvStore, lastOp >>
    /\ ConcUnchanged

\* index.ts lines 94-106: updateQValue and decayEpsilon of an iteration
ConcKVUpdate(i) ==
    /\ lastOp.store = "kv"
    /\ session.clients[i].pc = "run"
    /\ session.clients[i].updates < MaxConcUpdates
    /\ LET c == session.clients[i]
       IN  \E a \in { "refine_clarity", "adjust_tone" }, r \in { 45, 55 } :
              session' = [ session EXCEPT
                             !.clients[i].updates = @ + 1,
                             !.clients[i].table =
                                 kvUpdateQValue(c.table, c.cfg, c.key, a, Points(r),
                                                c.key, WorkerActions),
                             !.clients[i].cfg = kvDecayEpsilon(c.cfg) ]
    /\ UNCHANGED << qVars, kvStore, lastOp >>
    /\ ConcUnchanged

\* index.ts line 110: the awaited saveQTable() puts the whole table
ConcKVSave(i) ==
    /\ lastOp.store = "kv"
    /\ session.clients[i].pc = "run"
    /\ LET c == session.clients[i]
       IN  /\ kvStore' = << kvToSave(c.table, c.cfg) >>
           /\ session' = [ session EXCEPT !.clients[i].pc = "done",
                                          !.clients[i].saved = << c.table >> ]
    /\ lastOp' = ConcOp("kv", i)
    /\ UNCHANGED qVars
    /\ ConcUnchanged

NextConc ==
    \/ \E i \in ConcClients : ConcUpdate(i)
    \/ \E i \in ConcClients : ConcReturn(i)
    \/ QSaveStringify
    \/ ConcWrite
    \/ \E i \in ConcClients : ConcKVLoad(i)
    \/ \E i \in ConcClients : ConcKVUpdate(i)
    \/ \E i \in ConcClients : ConcKVSave(i)

SpecConc == InitConc /\ [][NextConc]_vars

(***************************************************************************)
(* SpecKey: extractState / stateKey (state.ts) and extractGenericState /   *)
(* getStateKey (generic/state.ts) called with objectives, candidates and   *)
(* iteration numbers drawn from small sets, while the clock advances.      *)
(* An objective is an ObjectiveConfig (lib/objective/validate.ts).         *)
(***************************************************************************)
\* number of state extractions in one run
MaxExtractions == 2

Objective(intent, type, identifier, filters, dataSource, mustInclude) ==
    [ intent |-> intent,
      scope |-> [ timeframe |-> "last_30_days",
                  entity |-> [ type |-> type, identifier |-> identifier ],
                  filters |-> filters ],
      constraints |-> [ dataSource |-> dataSource, mustInclude |-> mustInclude ] ]

CoffeeObjective ==
    Objective("show coffee expenses", "merchant", "Coffee", << >>,
              "transactions", << "merchant_name" >>)

\* CoffeeObjective and objectives that differ from it in one field
KeyObjectives ==
    { CoffeeObjective,
      Objective("total coffee spend", "merchant", "Coffee", << >>,
                "transactions", << "merchant_name" >>),
      Objective("show coffee expenses", "category", "Coffee", << >>,
                "transactions", << "merchant_name" >>),
      Objective("show coffee expenses", "merchant", "Tea", << >>,
                "transactions", << "merchant_name" >>),
      Objective("show coffee expenses", "merchant", "Coffee",
                << [ field |-> "category", value |-> "Food" ] >>,
                "transactions", << "merchant_name" >>),
      Objective("show coffee expenses", "merchant", "Coffee", << >>,
                "orders", << "merchant_name" >>),
      Objective("show coffee expenses", "merchant", "Coffee", << >>,
                "transactions", << "merchant_name", "created_at" >>) }

\* state.ts lines 170-182: the first 8 hex digits of the MD5 of
\* JSON.stringify({ intent, entityType, dataSource }); the digest is taken
\* to be different for different texts
hashObjective(objective) ==
    << objective.intent, objective.scope.entity.type, objective.constraints.dataSource >>

\* state.ts lines 128-136
getEntityColumn(entityType) ==
    IF entityType = "merchant" THEN "merchant_name" ELSE entityType

\* state.ts lines 141-165, for the texts of the model (no GROUP BY)
estimateQueryCost(c) ==
    10 + (IF c.select = "star" THEN 20 ELSE 0) + c.joins * 30
       - (IF c.where # "none" THEN 5 ELSE 0)
       + (IF c.select = "agg" THEN 10 ELSE 0)

\* state.ts lines 8-28; sql stands for the select columns, the where
\* predicates, the aggregations and the two flags, which stateKey reads
extractState(c, objective) ==
    [ sql |-> c,
      constraintsMet |->
          [ timeframe |-> TRUE,
            entity |-> Includes(c, getEntityColumn(objective.scope.entity.type)),
            mustInclude |-> \A i \in DOMAIN objective.constraints.mustInclude :
                                Includes(c, objective.constraints.mustInclude[i]) ],
      estimatedCost |-> estimateQueryCost(c),
      objectiveHash |-> hashObjective(objective) ]

\* a key that leaves the objective out
SQLStateKeyOfCandidate(state) == << stateKey(state.sql) >>

\* state.ts lines 33-42: the parts read from the query, then the
\* objective hash
SQLStateKey(state) == << stateKey(state.sql), state.objectiveHash >>

\* generic/state.ts lines 139-142 for an objective: JSON.stringify is given
\* the sorted top-level keys (constraints, intent, scope) as its property
\* list, which applies at every depth, so of the nested objects only the
\* properties with one of these three names are written: scope and
\* constraints are both written as {}
hashObject(objective) ==
    [ constraints |-> << >>, intent |-> objective.intent, scope |-> << >> ]

\* the same for an array of numbers: the property list does not apply to
\* the elements of an array
hashObjectOfArray(output) == output.items

\* generic/state.ts lines 36-74, for an output that is not null; the
\* features spread from the analysis are left out, getStateKey reads none
extractGenericState(output, objective, iteration, now) ==
    [ objectiveHash |-> hashObject(objective),
      outputHash |-> hashObjectOfArray(output),
      features |-> [ outputType |-> TypeOf(output),
                     outputLength |-> Len(output.items),
                     isEmpty |-> isOutputEmpty(output),
                     hasConstraints |-> TRUE,
                     constraintCount |-> 2 ],
      metadata |-> [ iteration |-> iteration, timestamp |-> now ] ]

\* a key that hashes the whole state, metadata included
GenericStateKeyOfWholeState(state) ==
    << state.objectiveHash, state.outputHash, state.features.outputLength,
       state.features.isEmpty, state.metadata >>

\* generic/state.ts lines 82-93
GenericStateKey(state) ==
    << state.objectiveHash, state.outputHash, state.features.outputLength,
       state.features.isEmpty >>

Extraction(objective, candidate, iteration, now, threw, key) ==
    [ objective |-> objective, candidate |-> candidate, iteration |-> iteration,
      timestamp |-> now, threw |-> threw, key |-> key ]

InitKey ==
    /\ qtable = << >> /\ config = DEFAULT_CONFIG /\ queriesProcessed = 0
    /\ qfile = << >> /\ qwrites = << >>
    /\ kvTable = EmptyTable /\ kvConfig = KV_CONFIG /\ kvStore = << >>
    /\ experiences = << >> /\ expfile = << >> /\ expwrites = << >>
    /\ kvExperiences = << >> /\ kvExpStore = << >>
    /\ \E e \in Engines : session = [ pc |-> "key", engine |-> e, now |-> 0, log |-> {} ]
    /\ lastOp = NoOp
    /\ added = NoneAdded(TRUE)
    /\ opCount = 0

KeyUnchanged ==
    UNCHANGED << qVars, kvVars, expVars, kvExpVars, lastOp, added >>

\* optimizer.ts lines 77-78 and 156-157: the key of a query in some
\* iteration of a session; Date.now() is not read
ExtractSQLKey ==
    /\ session.pc = "key" /\ session.engine = "sql"
    /\ opCount < MaxExtractions
    /\ opCount' = opCount + 1
    /\ \E o \in KeyObjectives, c \in GeneratedSQL, it \in 1..MaxIter,
          now \in { session.now, session.now + 1 } :
          session' = [ session EXCEPT
                         !.now = now,
                         !.log = @ \cup { Extraction(o, c, it, now, FALSE,
                                              SQLStateKey(extractState(c, o))) } ]
    /\ KeyUnchanged

\* optimizerGeneric.ts lines 125-128 and 229-232: the key of an output in
\* iteration `it`, extracted when the clock shows `now`
ExtractGenericKey ==
    /\ session.pc = "key" /\ session.engine = "generic"
    /\ opCount < MaxExtractions
    /\ opCount' = opCount + 1
    /\ \E o \in KeyObjectives, c \in GeneratedOutputs, it \in 1..MaxIter,
          now \in { session.now, session.now + 1 } :
          session' = [ session EXCEPT
                         !.now = now,
                         !.log = @ \cup {
                             IF hashObjectThrows(c)
                             THEN Extraction(o, c, it, now, TRUE, << >>)
                             ELSE Extraction(o, c, it, now, FALSE,
                                      GenericStateKey(extractGenericState(c, o, it, now))) } ]
    /\ KeyUnchanged

NextKey == ExtractSQLKey \/ ExtractGenericKey

SpecKey == InitKey /\ [][NextKey]_vars

(***************************************************************************)
(* SpecLong: sessions of optimizeWithRL that run for MaxLongIter           *)
(* iterations, long enough for RESET to become applicable, on outputs for  *)
(* which every action of GenericAction is applicable at some point.  The   *)
(* evaluator passes no output, so no session converges early.              *)
(***************************************************************************)
\* maxIterations of the sessions
MaxLongIter == 4

\* an array of 76 numbers: its complexity is above 0.5 and below 0.7
LongOutput == ArrayOutput([ i \in 1..76 |-> 0 ])

LongEnvs ==
    { [ det |-> TRUE, first |-> f, later |-> l, passing |-> "none" ] :
          f \in { ArrayOutput(<< 1, 2, 3 >>), LongOutput },
          l \in { ArrayOutput(<< 1, 2, 3 >>), LongOutput } }

InitLong ==
    /\ qtable = << >> /\ config = DEFAULT_CONFIG /\ queriesProcessed = 0
    /\ qfile = << >> /\ qwrites = << >>
    /\ kvTable = EmptyTable /\ kvConfig = KV_CONFIG /\ kvStore = << >>
    /\ experiences = << >> /\ expfile = << >> /\ expwrites = << >>
    /\ kvExperiences = << >> /\ kvExpStore = << >>
    /\ session = IdleSession
    /\ lastOp = NoOp
    /\ added = NoneAdded(TRUE)
    /\ opCount = 0

StartLong ==
    /\ session.pc = "idle"
    /\ \E env \in LongEnvs :
          Begin(NewSession("generic", MaxLongIter, env, 1, FALSE, NoTrace))
    /\ UNCHANGED << qfile, kvVars, experiences, expfile, kvExpVars, lastOp, added, opCount >>

NextLong ==
    \/ StartLong
    \/ GeneratorReturns
    \/ SelectStep
    \/ EvaluateStep

SpecLong == InitLong /\ [][NextLong]_vars

(***************************************************************************)
(* SpecTransform: applyAction of both engines applied, again and again, to *)
(* candidates that include the empty text, a fragment without SELECT ...   *)
(* FROM, null and the empty array, with every action type of SQLAction     *)
(* and GenericAction.  As in the driver's calls, the action carries no     *)
(* parameters.                                                             *)
(***************************************************************************)
\* number of transformations applied in a row
MaxTransforms == 2

\* types.ts lines 35-47
SQLActionTypes ==
    { "add_column", "remove_column", "add_where", "modify_where", "remove_where",
      "add_agg", "remove_agg", "add_order", "fix_entity", "llm_policy", "noop" }

\* generic/actions lines 6-24
GenericActionTypes ==
    { "USE_GENERATOR", "PERTURB_OUTPUT", "SIMPLIFY", "EXPAND", "REFINE", "RESET" }

\* WHERE merchant = 'Coffee'
FragmentSQL ==
    [ select |-> "none", ncols |-> 0, colsLen |-> 0, where |-> "bare_eq",
      order |-> FALSE, len |-> 25, joins |-> 0, limit |-> FALSE ]

\* SELECT * FROM transactions WHERE merchant = 'Coffee'
BareSQL ==
    [ select |-> "star", ncols |-> 1, colsLen |-> 1, where |-> "bare_eq",
      order |-> FALSE, len |-> 52, joins |-> 0, limit |-> FALSE ]

TransformedSQL == GeneratedSQL \cup { EmptySQL, FragmentSQL, BareSQL }

TransformedOutputs == GeneratedOutputs \cup { LongOutput }

\* what each transformation of actions.ts looks for in the text before it
\* rewrites it: the regular expressions of lines 114, 134, 161, 169, 189,
\* 205, 215 and 250; addOrderBy (line 230) appends to any text
SQLAnchorPresent(c, action, objective) ==
    CASE action \in { "add_column", "remove_column", "add_agg", "add_where" }
                                 -> c.select # "none"
      [] action = "modify_where" -> c.where \in { "entity_eq", "bare_eq" }
      [] action = "remove_where" -> c.where # "none"
      [] action = "remove_agg"   -> c.select = "agg"
      [] action = "fix_entity"   -> c.where \in { "bare_eq", "bare_in" }
      [] action = "add_order"    -> TRUE
      [] OTHER                   -> FALSE

\* generic/actions lines 117-173: perturbOutput swaps in an array of more
\* than two items, simplifyOutput slices an array
GenericAnchorPresent(output, action) ==
    CASE action = "PERTURB_OUTPUT" -> ~ output.null /\ Len(output.items) > 2
      [] action = "SIMPLIFY"       -> ~ output.null
      [] OTHER                     -> FALSE

TransformOp(objective, before, action, sentinel, after) ==
    [ store |-> "none", op |-> "apply", objective |-> objective, before |-> before,
      action |-> action, sentinel |-> sentinel, after |-> after ]

InitTransform ==
    /\ qtable = << >> /\ config = DEFAULT_CONFIG /\ queriesProcessed = 0
    /\ qfile = << >> /\ qwrites = << >>
    /\ kvTable = EmptyTable /\ kvConfig = KV_CONFIG /\ kvStore = << >>
    /\ experiences = << >> /\ expfile = << >> /\ expwrites = << >>
    /\ kvExperiences = << >> /\ kvExpStore = << >>
    /\ \/ \E c \in TransformedSQL :
             session = [ pc |-> "transform", engine |-> "sql", candidate |-> c ]
       \/ \E c \in TransformedOutputs :
             session = [ pc |-> "transform", engine |-> "generic", candidate |-> c ]
    /\ lastOp = NoOp
    /\ added = NoneAdded(TRUE)
    /\ opCount = 0

TransformUnchanged ==
    UNCHANGED << qVars, kvVars, expVars, kvExpVars, added >>

\* actions.ts lines 7-46
TransformSQL ==
    /\ session.pc = "transform" /\ session.engine = "sql"
    /\ opCount < MaxTransforms
    /\ opCount' = opCount + 1
    /\ \E a \in SQLActionTypes, o \in { SQLObjective, NoScopeObjective } :
          LET after == applyAction(session.candidate, a, o)
          IN  /\ session' = [ session EXCEPT !.candidate = after ]
              /\ lastOp' = TransformOp(o, session.candidate, a, FALSE, after)
    /\ TransformUnchanged

\* generic/actions lines 85-112; a result of null, the sentinel, leaves the
\* candidate to the generator
TransformGeneric ==
    /\ session.pc = "transform" /\ session.engine = "generic"
    /\ opCount < MaxTransforms
    /\ opCount' = opCount + 1
    /\ \E a \in GenericActionTypes, ij \in PerturbDraws :
          LET g == genericApplyAction(session.candidate, a, ij[1], ij[2])
          IN  /\ session' = IF g.toGenerator THEN session
                            ELSE [ session EXCEPT !.candidate = g.output ]
              /\ lastOp' = TransformOp(GenericObjective, session.candidate, a,
                                       g.toGenerator, g.output)
    /\ TransformUnchanged

NextTransform == TransformSQL \/ TransformGeneric

SpecTransform == InitTransform /\ [][NextTransform]_vars

(***************************************************************************)
(* SpecScenario: optimizeSQL run by rlTool (rlTool.ts lines 31-58) with    *)
(* evaluateSQL as the critic, on an objective whose scope.filters asks for *)
(* merchant_name = 'Coffee' and whose loopPolicy.maxIterations is 6.  The  *)
(* generator's first candidate has no filter on merchant_name; handed the  *)
(* feedback MISSING_FILTER_FIELD it answers with the filtered query.       *)
(***************************************************************************)
CoffeeFilterObjective ==
    [ hasIntent |-> TRUE,
      intentAll |-> TRUE, intentExcept |-> FALSE, timeframe |-> TRUE,
      entityType |-> TRUE, identifier |-> TRUE,
      mustInclude |-> << "merchant_name", "created_at" >>,
      filters |-> << "merchant_name" >>,
      loopPolicy |-> [ maxIterations |-> 6 ] ]

\* SELECT * FROM transactions WHERE amount > 0
WhereAmountSQL ==
    [ select |-> "star", ncols |-> 1, colsLen |-> 1, where |-> "amount",
      order |-> FALSE, len |-> 43, joins |-> 0, limit |-> FALSE ]

ScenarioEnvs ==
    { [ det |-> TRUE, first |-> f, later |-> FilteredSQL, passing |-> "filters" ] :
          f \in { UnfilteredSQL, WhereAmountSQL } }

InitScenario ==
    /\ qtable = << >> /\ config = DEFAULT_CONFIG /\ queriesProcessed = 0
    /\ qfile = << >> /\ qwrites = << >>
    /\ kvTable = EmptyTable /\ kvConfig = KV_CONFIG /\ kvStore = << >>
    /\ experiences = << >> /\ expfile = << >> /\ expwrites = << >>
    /\ kvExperiences = << >> /\ kvExpStore = << >>
    /\ session = IdleSession
    /\ lastOp = NoOp
    /\ added = NoneAdded(TRUE)
    /\ opCount = 0

\* optimizer.ts lines 56-62
StartScenario ==
    /\ session.pc = "idle"
    /\ \E env \in ScenarioEnvs :
          Begin([ NewSession("sql", CoffeeFilterObjective.loopPolicy.maxIterations,
                             env, 1, FALSE, NoTrace)
                    EXCEPT !.objective = CoffeeFilterObjective ])
    /\ UNCHANGED << qfile, kvVars, experiences, expfile, kvExpVars, lastOp, added, opCount >>

NextScenario ==
    \/ StartScenario
    \/ GeneratorReturns
    \/ SelectStep
    \/ EvaluateStep

SpecScenario == InitScenario /\ [][NextScenario]_vars

(***************************************************************************)
(* SpecEvict: setQValue, updateQValue, getQValue and selectAction of       *)
(* qlearning.ts called in any order on the Map a process holds after its   *)
(* load at module import: empty, or the full table of an earlier process.  *)
(* lastOp keeps the keys of the Map before the call, in insertion order,   *)
(* and the state keys read or written by the earlier calls.                *)
(***************************************************************************)
\* number of calls in one run
MaxEvictOps == 3

\* qtable.keys(): the state keys in insertion order
KeySeq(qt) == [ i \in DOMAIN qt |-> qt[i][1] ]

EvictOp(op, key, before, touched) ==
    [ store |-> "file", op |-> op, key |-> key, before |-> before, touched |-> touched ]

InitEvict ==
    /\ \E file \in EarlierQFiles :
          /\ qfile = file
          /\ qtable = loadQTableMap(file)
          /\ config = loadQTableConfig(file, DEFAULT_CONFIG)
    /\ queriesProcessed = 0
    /\ qwrites = << >>
    /\ kvTable = EmptyTable /\ kvConfig = KV_CONFIG /\ kvStore = << >>
    /\ experiences = << >> /\ expfile = << >> /\ expwrites = << >>
    /\ kvExperiences = << >> /\ kvExpStore = << >>
    /\ session = IdleSession
    /\ lastOp = EvictOp("init", 0, << >>, {})
    /\ added = << >>
    /\ opCount = 0

EvictStep(op, k) ==
    /\ opCount < MaxEvictOps
    /\ opCount' = opCount + 1
    /\ lastOp' = EvictOp(op, k, KeySeq(qtable), lastOp.touched \cup {k})
    /\ UNCHANGED << config, queriesProcessed, qfile, qwrites, kvVars, expVars,
                    kvExpVars, session, added >>

\* getQValue(k, a) and selectAction(k, as): the Map is read only
EvictRead ==
    \E k \in StateKeys :
       /\ EvictStep("read", k)
       /\ qtable' = qtable

EvictSet ==
    \E k \in StateKeys, a \in { "llm_policy", "add_where" }, v \in QValues :
       /\ EvictStep("set", k)
       /\ qtable' = setQValue(qtable, config, k, a, v)

EvictUpdate ==
    \E k \in StateKeys, r \in Rewards :
    \E n \in NextKeys(k) :
       /\ EvictStep("update", k)
       /\ qtable' = updateQValue(qtable, config, k, "llm_policy", r, n,
                                 << "add_where", "llm_policy" >>)

NextEvict == EvictRead \/ EvictSet \/ EvictUpdate

SpecEvict == InitEvict /\ [][NextEvict]_vars

(***************************************************************************)
(* SpecIter: sessions of optimizeSQL and optimizeWithRL of MaxSessionIter  *)
(* iterations with deterministic callbacks, in a process that has learned  *)
(* nothing yet.  The evaluator passes no candidate, some or all, so the    *)
(* sessions converge at any iteration or run to the end.                   *)
(***************************************************************************)
\* maxIterations of the sessions
MaxSessionIter == 3

StartIter ==
    /\ session.pc = "idle"
    /\ \E engine \in Engines :
       \E env \in DetEnvs(engine) :
       \E o \in (IF engine = "sql" THEN { SQLObjective } ELSE GenericObjectives) :
          Begin([ NewSession(engine, MaxSessionIter, env, 1, FALSE, NoTrace)
                    EXCEPT !.objective = o ])
    /\ UNCHANGED << qfile, kvVars, experiences, expfile, kvExpVars, lastOp, added, opCount >>

NextIter ==
    \/ StartIter
    \/ GeneratorReturns
    \/ SelectStep
    \/ EvaluateStep

SpecIter == InitLong /\ [][NextIter]_vars

(***************************************************************************)
(* SpecImport: a process that has just imported qlearning.ts and           *)
(* experience.ts.  The import has started loadQTable() and                 *)
(* loadExperiences() (qlearning.ts line 248, experience.ts line 166) and   *)
(* awaits neither: both are pending when the first session of optimizeSQL  *)
(* is called.  A load settles in a turn of the event loop in which no      *)
(* session runs: readFile resolves and the Map or the array is replaced,   *)
(* or mkdir, readFile or JSON.parse fails and the catch block empties it.  *)
(* lastOp holds what has become of the two loads.                          *)
(***************************************************************************)
\* the experiences an earlier process saved
ImportExperiences ==
    << [ id |-> 0, stateKey |-> stateKey(UnfilteredSQL), action |-> "add_where",
         reward |-> 50000, nextStateKey |-> stateKey(FilteredSQL), terminal |-> TRUE ] >>

\* the callbacks of the first session: the evaluator passes the queries
\* with a WHERE clause
ImportEnvs ==
    { [ det |-> TRUE, first |-> f, later |-> FilteredSQL, passing |-> "some" ] :
          f \in { UnfilteredSQL, FilteredSQL } }

ImportOp(qload, expload) == [ op |-> "import", qload |-> qload, expload |-> expload ]

InitImport ==
    /\ qtable = << >> /\ config = DEFAULT_CONFIG /\ queriesProcessed = 0
    /\ qfile \in { << >>, StoreFile }
    /\ qwrites = << >>
    /\ kvTable = EmptyTable /\ kvConfig = KV_CONFIG /\ kvStore = << >>
    /\ experiences = << >>
    /\ expfile \in { << >>, << ImportExperiences >> }
    /\ expwrites = << >>
    /\ kvExperiences = << >> /\ kvExpStore = << >>
    /\ session = NewSession("sql", 0, NoEnv, 1, FALSE, NoTrace)
    /\ lastOp = ImportOp("pending", "pending")
    /\ added = NoneAdded(TRUE)
    /\ opCount = 0

ImportFirstSession ==
    /\ session.pc = "idle"
    /\ \E m \in 1..MaxIter, env \in ImportEnvs :
          Begin(NewSession("sql", m, env, 1, FALSE, NoTrace))
    /\ UNCHANGED << qfile, kvVars, experiences, expfile, kvExpVars, lastOp, added, opCount >>

\* qlearning.ts lines 34-48, from the resolution of readFile on
ImportQLoaded ==
    /\ EventLoopFree
    /\ lastOp.qload = "pending"
    /\ qfile # << >>
    /\ qtable' = loadQTableMap(qfile)
    /\ config' = loadQTableConfig(qfile, config)
    /\ lastOp' = [ lastOp EXCEPT !.qload = "loaded" ]
    /\ UNCHANGED << queriesProcessed, qfile, qwrites, kvVars, expVars, kvExpVars,
                    session, added, opCount >>

\* qlearning.ts lines 49-52: there is no file, or it cannot be read
ImportQLoadFailed ==
    /\ EventLoopFree
    /\ lastOp.qload = "pending"
    /\ qtable' = loadQTableFailed(config).qtable
    /\ config' = loadQTableFailed(config).config
    /\ lastOp' = [ lastOp EXCEPT !.qload = "failed" ]
    /\ UNCHANGED << queriesProcessed, qfile, qwrites, kvVars, expVars, kvExpVars,
                    session, added, opCount >>

\* experience.ts lines 20-22
ImportExpLoaded ==
    /\ EventLoopFree
    /\ lastOp.expload = "pending"
    /\ expfile # << >>
    /\ experiences' = loadExperiences(expfile)
    /\ lastOp' = [ lastOp EXCEPT !.expload = "loaded" ]
    /\ UNCHANGED << qVars, kvVars, expfile, expwrites, kvExpVars, session, added, opCount >>

\* experience.ts lines 23-26
ImportExpLoadFailed ==
    /\ EventLoopFree
    /\ lastOp.expload = "pending"
    /\ experiences' = loadExperiencesFailed
    /\ lastOp' = [ lastOp EXCEPT !.expload = "failed" ]
    /\ UNCHANGED << qVars, kvVars, expfile, expwrites, kvExpVars, session, added, opCount >>

NextImport ==
    \/ ImportFirstSession
    \/ ImportQLoaded
    \/ ImportQLoadFailed
    \/ ImportExpLoaded
    \/ ImportExpLoadFailed
    \/ GeneratorReturns
    \/ SelectStep
    \/ EvaluateStep
    \/ QSaveStringify
    \/ QSaveWrite
    \/ ExpSaveStringify
    \/ ExpSaveWrite

SpecImport == InitImport /\ [][NextImport]_vars

(***************************************************************************)
(* SpecExec: updateFromExecution (optimizer.ts lines 240-290), called by   *)
(* POST /api/rl/execution with the id of an experience and the metrics of  *)
(* the executed query, in a process whose sessions go on adding            *)
(* experiences.  The function awaits the import of experience.ts before it *)
(* looks the experience up, and the import of qlearning.ts before it       *)
(* updates the Q-value and starts the save.                                *)
(***************************************************************************)
\* calls of updateFromExecution in one run
MaxExecCalls == 2

\* experiences added in one run: one more than the buffer holds
NumExecAdds == MaxExperiences + 1

\* the ids the function is called with: of experiences recorded and still
\* in the buffer, recorded and evicted, and never recorded
ExecIds == 1..(NumExecAdds + 1)

\* executionTime in ms, rowCount, hasErrors
ExecMetrics ==
    { [ executionTime |-> 45, rowCount |-> 150, hasErrors |-> FALSE ],
      [ executionTime |-> 2000, rowCount |-> 0, hasErrors |-> FALSE ],
      [ executionTime |-> 45, rowCount |-> 150, hasErrors |-> TRUE ] }

\* optimizer.ts lines 257-269
executionReward(metrics) ==
    IF metrics.hasErrors THEN Points(-30)
    ELSE (IF metrics.executionTime < 50 THEN Points(15)
          ELSE IF metrics.executionTime < 100 THEN Points(10)
          ELSE IF metrics.executionTime > 1000 THEN Points(-10)
          ELSE 0)
         + (IF metrics.rowCount > 0 THEN Points(10) ELSE 0)

\* a lookup that falls back to the newest experience of the buffer
getExperienceByIdOrNewest(exps, id) ==
    IF exps = << >> THEN << >> ELSE << exps[Len(exps)] >>

\* experience.ts lines 67-69: experiences.find(...), << >> for undefined
getExperienceById(exps, id) ==
    IF \E i \in DOMAIN exps : exps[i].id = id
    THEN << exps[CHOOSE i \in DOMAIN exps :
                   /\ exps[i].id = id
                   /\ \A j \in 1..(i - 1) : exps[j].id # id] >>
    ELSE << >>

ExecSession(pc, id, metrics, calls, status) ==
    [ pc |-> pc, id |-> id, metrics |-> metrics, calls |-> calls, status |-> status,
      experience |-> << >> ]

InitExec ==
    /\ qtable = << >> /\ config = DEFAULT_CONFIG /\ queriesProcessed = 0
    /\ qfile = << >> /\ qwrites = << >>
    /\ kvTable = EmptyTable /\ kvConfig = KV_CONFIG /\ kvStore = << >>
    /\ experiences = << >> /\ expfile = << >> /\ expwrites = << >>
    /\ kvExperiences = << >> /\ kvExpStore = << >>
    /\ session = ExecSession("idle", 0, << >>, 0, "")
    /\ lastOp = NoOp
    /\ added = NoneAdded(TRUE)
    /\ opCount = 0

\* step 9 of an iteration of optimizeSQL: addExperience
ExecAdd ==
    /\ opCount < NumExecAdds
    /\ \E keys \in { << stateKey(UnfilteredSQL), stateKey(FilteredSQL) >>,
                     << stateKey(FilteredSQL), stateKey(FilteredSQL) >> } :
          experiences' = addExperience(experiences,
                            [ id |-> NewExperienceId, stateKey |-> keys[1],
                              action |-> "add_where", reward |-> Points(50),
                              nextStateKey |-> keys[2], terminal |-> FALSE ])
    /\ opCount' = opCount + 1
    /\ UNCHANGED << qVars, kvVars, expfile, expwrites, kvExpVars, session, lastOp, added >>

\* line 248: the call, up to the awaited import
ExecCall ==
    /\ session.pc \in { "idle", "returned" }
    /\ session.calls < MaxExecCalls
    /\ \E id \in ExecIds, metrics \in ExecMetrics :
          session' = ExecSession("lookup", id, metrics, session.calls + 1, "")
    /\ UNCHANGED << qVars, kvVars, expVars, kvExpVars, lastOp, added, opCount >>

\* lines 249-278: the lookup; an id that is not in the buffer is logged
\* and the function returns
ExecLookup ==
    /\ session.pc = "lookup"
    /\ session' = IF getExperienceById(experiences, session.id) = << >>
                  THEN [ session EXCEPT !.pc = "returned", !.status = "NOT_FOUND" ]
                  ELSE [ session EXCEPT
                           !.pc = "update",
                           !.experience = getExperienceById(experiences, session.id) ]
    /\ UNCHANGED << qVars, kvVars, expVars, kvExpVars, lastOp, added, opCount >>

\* lines 280-289: the Bellman update with the new reward and saveQTable()
ExecUpdate ==
    /\ session.pc = "update"
    /\ LET experience == session.experience[1]
           newReward == experience.reward + executionReward(session.metrics)
           qt == updateQValue(qtable, config, experience.stateKey, experience.action,
                              newReward, experience.nextStateKey,
                              << "llm_policy", "add_column", "add_where" >>)
       IN  /\ qtable' = qt
           /\ qwrites' = Append(qwrites, saveQTableSnapshot(qt, config))
    /\ session' = [ session EXCEPT !.pc = "returned", !.status = "UPDATED" ]
    /\ UNCHANGED << config, queriesProcessed, qfile, kvVars, expVars, kvExpVars,
                    lastOp, added, opCount >>

NextExec ==
    \/ ExecAdd
    \/ ExecCall
    \/ ExecLookup
    \/ ExecUpdate
    \/ QSaveStringify
    \/ QSaveWrite

SpecExec == InitExec /\ [][NextExec]_vars

(***************************************************************************)
(* SpecRoundTrip: a process holding a Q-table saves it, and a process --   *)
(* the same one or one started afterwards -- loads what was saved.         *)
(***************************************************************************)
\* number of saves, restarts and loads in one run
MaxRoundTripOps == 3

\* the Q-tables a process can hold when it saves
HeldTables ==
    { << >>,
      << << 1, [ a \in { "llm_policy" } |-> 10000 ] >> >>,
      << << 2, [ a \in { "add_where", "llm_policy" } |-> 20000 ] >>,
         << 1, [ a \in { "USE_GENERATOR" } |-> 0 ] >> >> }

\* the same tables as the plain object of a QLearningKV
KVTableOf(qt) == [ k \in KeysOf(qt) |-> ActionMapOf(qt, k) ]

\* the epsilon a process can hold: the configured one, a decayed one, 0
HeldEpsilons == { 0, 50, 200 }

\* lastOp of a round trip: `saved` holds what the process held when the
\* content now in the store was serialised
RoundTripOp(st, op, saved) == [ store |-> st, op |-> op, saved |-> saved ]

InitRoundTrip ==
    /\ queriesProcessed = 0
    /\ qfile = << >> /\ qwrites = << >>
    /\ kvStore = << >>
    /\ experiences = << >> /\ expfile = << >> /\ expwrites = << >>
    /\ kvExperiences = << >> /\ kvExpStore = << >>
    /\ session = IdleSession
    /\ added = NoneAdded(TRUE)
    /\ opCount = 0
    /\ \E qt \in HeldTables, e \in HeldEpsilons :
          \/ /\ lastOp = RoundTripOp("file", "init", << >>)
             /\ qtable = qt
             /\ config = [ DEFAULT_CONFIG EXCEPT !.epsilon = e ]
             /\ kvTable = EmptyTable /\ kvConfig = KV_CONFIG
          \/ /\ lastOp = RoundTripOp("kv", "init", << >>)
             /\ qtable = << >> /\ config = DEFAULT_CONFIG
             /\ kvTable = KVTableOf(qt)
             /\ kvConfig = [ KV_CONFIG EXCEPT !.epsilon = e ]

RoundTripStep(st) ==
    /\ lastOp.store = st
    /\ opCount < MaxRoundTripOps
    /\ opCount' = opCount + 1
    /\ UNCHANGED << queriesProcessed, expVars, kvExpVars, session, added >>

\* saveQTable() of qlearning.ts up to its first await
RoundTripSave ==
    /\ RoundTripStep("file")
    /\ qwrites = << >>
    /\ qwrites' = Append(qwrites, saveQTableSnapshot(qtable, config))
    /\ lastOp' = [ lastOp EXCEPT !.op = "save" ]
    /\ UNCHANGED << qtable, config, qfile, kvVars >>

\* the awaited mkdir of the save resolves: JSON.stringify
RoundTripStringify ==
    /\ \E i \in DOMAIN qwrites :
          /\ qwrites[i].phase = "mkdir"
          /\ qwrites' = [ qwrites EXCEPT ![i] = saveQTableStringify(qwrites[i], config) ]
          /\ lastOp' = [ lastOp EXCEPT !.saved =
                           << [ table |-> KVTableOf(qwrites[i].qtable),
                                epsilon |-> config.epsilon ] >> ]
    /\ UNCHANGED << qtable, config, queriesProcessed, qfile, kvVars, expVars, kvExpVars,
                    session, added, opCount >>

\* a new process: the module state of qlearning.ts lines 12-23
RoundTripRestart ==
    /\ RoundTripStep("file")
    /\ qwrites = << >>
    /\ qtable' = << >>
    /\ config' = DEFAULT_CONFIG
    /\ lastOp' = [ lastOp EXCEPT !.op = "restart" ]
    /\ UNCHANGED << qfile, qwrites, kvVars >>

\* loadQTable(), called when no save is still writing
RoundTripLoad ==
    /\ RoundTripStep("file")
    /\ qwrites = << >>
    /\ qtable' = loadQTableMap(qfile)
    /\ config' = loadQTableConfig(qfile, config)
    /\ lastOp' = [ lastOp EXCEPT !.op = "load" ]
    /\ UNCHANGED << qfile, qwrites, kvVars >>

\* QLearningKV.saveQTable
RoundTripKVSave ==
    /\ RoundTripStep("kv")
    /\ kvStore' = << kvToSave(kvTable, kvConfig) >>
    /\ lastOp' = RoundTripOp("kv", "save",
                             << [ table |-> kvTable, epsilon |-> kvConfig.epsilon ] >>)
    /\ UNCHANGED << kvTable, kvConfig, qVars >>

\* a new request: new QLearningKV(config, env.RL_STORAGE, 'qtable')
RoundTripKVRestart ==
    /\ RoundTripStep("kv")
    /\ kvTable' = EmptyTable
    /\ kvConfig' = KV_CONFIG
    /\ lastOp' = [ lastOp EXCEPT !.op = "restart" ]
    /\ UNCHANGED << kvStore, qVars >>

RoundTripKVLoad ==
    /\ RoundTripStep("kv")
    /\ kvTable' = kvLoadTable(kvStore)
    /\ kvConfig' = kvLoadConfig(kvStore, kvConfig)
    /\ lastOp' = [ lastOp EXCEPT !.op = "load" ]
    /\ UNCHANGED << kvStore, qVars >>

NextRoundTrip ==
    \/ RoundTripSave \/ RoundTripStringify \/ QSaveWrite \/ RoundTripRestart \/ RoundTripLoad
    \/ RoundTripKVSave \/ RoundTripKVRestart \/ RoundTripKVLoad

SpecRoundTrip == InitRoundTrip /\ [][NextRoundTrip]_vars

(***************************************************************************)
(* Properties of the Q-table stores (checked under SpecQ).                 *)
(***************************************************************************)
\* Q(k, a) read straight from the tables: the stored number when the pair
\* was written, else the seed of the store
StoredQ(qt, k, a) ==
    IF \E i \in DOMAIN qt : qt[i][1] = k /\ a \in DOMAIN qt[i][2]
    THEN LET i == CHOOSE j \in DOMAIN qt : qt[j][1] = k IN qt[i][2][a]
    ELSE IF a = "USE_GENERATOR" THEN 500 ELSE 0

StoredKVQ(t, k, a) ==
    IF k \in DOMAIN t /\ a \in DOMAIN t[k] THEN t[k][a] ELSE 0

SetMax(S) == CHOOSE m \in S : \A x \in S : m >= x

Bellman(q, alpha, gamma, r, maxNext) ==
    q + ((alpha * (r + ((gamma * maxNext) \div 1000) - q)) \div 1000)

\* C4: updateQValue(s, a, r, s', A) stores
\* Q(s,a) + alpha * (r + gamma * max_{a' in A} Q(s',a') - Q(s,a)), with the
\* seeded value for pairs never written and A the list passed by the
\* caller; with Q = 10, alpha = 0.1, gamma = 0.9, r = 50 and a maximal next
\* Q of 20 the stored value is 15.8.
C4_BellmanUpdate ==
    [][ (opCount' = opCount + 1 /\ lastOp'.op = "update") =>
        LET o == lastOp'
        IN  IF o.store = "file"
            THEN LET q == StoredQ(qtable, o.key, o.action)
                     m == SetMax({ StoredQ(qtable, o.next, b) : b \in Range(o.actions) })
                 IN  /\ StoredQ(qtable', o.key, o.action)
                          = Bellman(q, config.alpha, config.gamma, o.reward, m)
                     /\ (q = 10000 /\ m = 20000 /\ o.reward = 50000
                         /\ config.alpha = 100 /\ config.gamma = 900)
                        => StoredQ(qtable', o.key, o.action) = 15800
            ELSE LET q == StoredKVQ(kvTable, o.key, o.action)
                     m == SetMax({ StoredKVQ(kvTable, o.next, b) : b \in Range(o.actions) })
                 IN  StoredKVQ(kvTable', o.key, o.action)
                       = Bellman(q, kvConfig.learningRate, kvConfig.discountFactor,
                                 o.reward, m)
      ]_vars

\* an update of a pair whose Q was 10 with reward 50 and next maximum 20 has
\* been stored as 15.8
C4_Witness ==
    /\ lastOp.store = "file" /\ lastOp.op = "update"
    /\ lastOp.reward = 50000
    /\ lastOp.key # lastOp.next
    /\ SetMax({ StoredQ(qtable, lastOp.next, b) : b \in Range(lastOp.actions) }) = 20000
    /\ StoredQ(qtable, lastOp.key, lastOp.action) = 15800

PositionOf(as, a) == CHOOSE i \in DOMAIN as : as[i] = a

\* C5: when exploration is not taken, selectAction returns an action of A
\* with maximal Q-value, and the first such action in A's order.
C5_GreedyFirstMax ==
    (lastOp.op = "select") =>
      LET o == lastOp
          eps == IF o.store = "file" THEN config.epsilon ELSE kvConfig.epsilon
          Q(a) == IF o.store = "file" THEN StoredQ(qtable, o.key, a)
                  ELSE StoredKVQ(kvTable, o.key, a)
      IN  (o.rnd >= eps) =>
            /\ o.result \in Range(o.actions)
            /\ \A b \in Range(o.actions) : Q(b) <= Q(o.result)
            /\ \A j \in DOMAIN o.actions :
                 j < PositionOf(o.actions, o.result) => Q(o.actions[j]) < Q(o.result)

\* epsilon is 0, two actions of A share the maximal Q-value and the first
\* action of A is not maximal: the earlier of the two was returned
C5_Witness ==
    /\ lastOp.store = "file" /\ lastOp.op = "select"
    /\ config.epsilon = 0
    /\ lastOp.result # lastOp.actions[1]
    /\ \E b \in Range(lastOp.actions) :
          /\ b # lastOp.result
          /\ StoredQ(qtable, lastOp.key, b) = StoredQ(qtable, lastOp.key, lastOp.result)

\* C7: in every reachable state of a Q-table store the number of state
\* entries is at most maxQTableSize.
C7_QTableBounded ==
    /\ Len(qtable) <= config.maxQTableSize
    /\ Cardinality(DOMAIN kvTable) <= MaxQTableSize

(***************************************************************************)
(* Properties of the experience buffers (checked under SpecExp).           *)
(***************************************************************************)
BufferOf(st) == IF st = "file" THEN experiences ELSE kvExperiences

LastOf(xs, n) == [ i \in 1..n |-> xs[Len(xs) - n + i] ]

\* C8: starting from an empty buffer, after maxExperiences + k adds (k >= 0)
\* the buffer holds exactly the last maxExperiences elements added, in the
\* order in which they were added.
C8_FifoKeepsMostRecent ==
    (added.fromEmpty /\ Len(added.items) >= MaxExperiences) =>
        BufferOf(lastOp.store) = LastOf(added.items, MaxExperiences)

\* more elements than the capacity have been added to an empty buffer
C8_Witness ==
    /\ added.fromEmpty
    /\ lastOp.op = "add"
    /\ Len(added.items) > MaxExperiences
    /\ Len(BufferOf(lastOp.store)) = MaxExperiences

\* C9: in every reachable state of an Experience Buffer (after any loads,
\* adds and clears) the number of stored experiences is at most
\* maxExperiences.
C9_BufferBounded ==
    /\ Len(experiences) <= MaxExperiences
    /\ Len(kvExperiences) <= MaxExperiences

\* an element has been added to a full buffer that was loaded from the store
C9_Witness ==
    /\ ~ added.fromEmpty
    /\ lastOp.op = "add"
    /\ Len(added.items) > 0
    /\ Len(BufferOf(lastOp.store)) = MaxExperiences

(***************************************************************************)
(* Properties of a session (checked under Spec).                           *)
(***************************************************************************)
Logs == session.iterationLogs

LastLog == Logs[Len(Logs)]

Settled == session.pc \in { "returned", "thrown" }

\* the convergence predicate on the values an iteration logged
PredicateHolds(l) ==
    /\ l.passed
    /\ l.semanticMatch
    /\ l.total >= (IF session.engine = "sql" THEN Points(100) ELSE Points(70))

\* C1: once iteration i satisfies the convergence predicate the session
\* returns at i: nothing of an iteration i+1 happens (no state extraction,
\* action selection, generator call, Q-value update or experience append),
\* and only the last entry of the iteration log can carry converged = true.
C1_HaltsAtConvergence ==
    [][ /\ \A i \in 1..(Len(session'.iterationLogs) - 1) :
              ~ session'.iterationLogs[i].converged
        /\ (Len(Logs) > 0 /\ LastLog.converged) =>
              /\ session.pc = "returned"
              /\ session.result[1].iterations = LastLog.iteration
              /\ session' = session
              /\ qtable' = qtable
              /\ experiences' = experiences ]_vars

\* a session has converged at its first iteration with iterations to spare
C1_Witness ==
    /\ session.pc = "returned"
    /\ Len(Logs) = 1
    /\ LastLog.converged
    /\ session.maxIterations > 1
    /\ expfile # << >>

\* C2: a session ends CONVERGED at iteration i if and only if the candidate
\* of iteration i passed the evaluation, matched the semantics and has a
\* total reward (after the semantic penalty) of at least the convergence
\* threshold; a candidate that did not pass has a constraintScore strictly
\* below the full-pass value and never ends a session as CONVERGED.
C2_ConvergedIffPredicate ==
    \A i \in DOMAIN Logs :
        /\ PredicateHolds(Logs[i]) <=>
              /\ session.status = "CONVERGED"
              /\ i = Len(Logs)
              /\ session.result[1].iterations = Logs[i].iteration
        /\ ~ Logs[i].passed =>
              /\ Logs[i].constraintScore
                     < (IF session.engine = "sql" THEN Points(100) ELSE Points(60))
              /\ ~ (session.status = "CONVERGED" /\ i = Len(Logs))

\* a session converged at its second iteration after a failed candidate
\* that earned the largest partial credit
C2_Witness ==
    /\ session.status = "CONVERGED"
    /\ Len(Logs) = 2
    /\ ~ Logs[1].passed
    /\ Logs[1].constraintScore = Points(90)
    /\ PredicateHolds(Logs[2])

\* C3: a session ends in CONVERGED or EXHAUSTED after at most maxIterations
\* iterations, whatever the callbacks return; the loop stops in no other
\* way.
C3_EndsConvergedOrExhausted ==
    Settled =>
        /\ session.status \in { "CONVERGED", "EXHAUSTED" }
        /\ Len(Logs) <= session.maxIterations

\* C10 as stated: when a session has returned, the persisted store holds
\* the Q-table and the Experience Buffer the session left.
C10_PersistedBeforeReturn ==
    session.pc = "returned" =>
        /\ qfile # << >> /\ qfile[1].qtable = qtable
        /\ expfile # << >> /\ expfile[1] = experiences

\* C10: a session that ends, CONVERGED or EXHAUSTED, starts the save of the
\* Q-table and the save of the Experience Buffer before it returns and
\* does not wait for them: the returning step leaves the persisted store as
\* it was, the Q-table save holds a copy of the in-memory Q-table at the
\* end of the session, and what is written afterwards is that copy and the
\* buffer the session left.
C10_SavesStartedBeforeReturn ==
    [][ /\ (session.pc # "returned" /\ session'.pc = "returned") =>
              /\ Len(qwrites') = Len(qwrites) + 1
              /\ qwrites'[Len(qwrites')].phase = "mkdir"
              /\ qwrites'[Len(qwrites')].qtable = qtable'
              /\ Len(expwrites') = Len(expwrites) + 1
              /\ expwrites'[Len(expwrites')].phase = "mkdir"
              /\ qfile' = qfile
              /\ expfile' = expfile
        /\ qfile' # << >> =>
              (session'.pc = "returned" /\ qfile'[1].qtable = qtable')
        /\ expfile' # << >> =>
              (session'.pc = "returned" /\ expfile'[1] = experiences') ]_vars

\* a session with an iteration has returned; its Q-table has been written,
\* its experiences not yet
C10_Witness ==
    /\ session.pc = "returned"
    /\ Len(Logs) > 0
    /\ qfile # << >> /\ qfile[1].qtable = qtable
    /\ expfile = << >> /\ Len(expwrites) = 1

(***************************************************************************)
(* Properties of two sessions in a row (checked under SpecDet).            *)
(***************************************************************************)
BothRunsDone == session.run = 2 /\ session.pc = "returned"

SameResults ==
    /\ ActionsOf(Logs) = session.trace.actions
    /\ session.result[1].finalReward = session.trace.finalReward

C11_DecayOncePerSession ==
    (session.pc = "returned" /\ session.status \in { "CONVERGED", "EXHAUSTED" })
        => session.decays = 1

RECURSIVE DecayPower(_, _, _)
\* epsilon0 * epsilonDecay^n, in thousandths
DecayPower(epsilon0, epsilonDecay, n) ==
    IF n = 0 THEN epsilon0
    ELSE DecayPower((epsilon0 * epsilonDecay) \div 1000, epsilonDecay, n - 1)

RECURSIVE ExactPower(_, _, _)
\* no product of DecayPower has a remainder below one thousandth
ExactPower(epsilon0, epsilonDecay, n) ==
    \/ n = 0
    \/ /\ (epsilon0 * epsilonDecay) % 1000 = 0
       /\ ExactPower((epsilon0 * epsilonDecay) \div 1000, epsilonDecay, n - 1)

\* C12: after N calls of decayEpsilon (N >= 0) the stored epsilon equals
\* max(epsilonMin, epsilon0 * epsilonDecay^N), for every epsilon0 and every
\* epsilonMin and epsilonDecay in [0, 1].
C12_DecayClosedForm ==
    (lastOp.op = "decay") =>
        LET n == opCount
            cfg == IF lastOp.store = "file"
                   THEN [ epsilon |-> config.epsilon, min |-> config.epsilonMin,
                          decay |-> config.epsilonDecay ]
                   ELSE [ epsilon |-> kvConfig.epsilon, min |-> kvConfig.minEpsilon,
                          decay |-> kvConfig.epsilonDecay ]
        IN  ExactPower(lastOp.epsilon0, cfg.decay, n) =>
              cfg.epsilon = Max2(cfg.min, DecayPower(lastOp.epsilon0, cfg.decay, n))

(***************************************************************************)
(* Properties of saving and loading (checked under SpecRoundTrip).         *)
(***************************************************************************)
\* C13: after a load of a saved Q-table, every (state, action) pair that
\* was written when the table was saved has exactly the saved Q-value, and
\* the epsilon of the store is the saved epsilon, whatever its value.
C13_SaveLoadRoundTrip ==
    (lastOp.op = "load" /\ lastOp.saved # << >>) =>
        LET saved == lastOp.saved[1]
        IN  /\ \A k \in DOMAIN saved.table : \A a \in DOMAIN saved.table[k] :
                  saved.table[k][a] =
                      IF lastOp.store = "file" THEN getQValue(qtable, k, a)
                      ELSE kvGetQValue(kvTable, k, a)
            /\ saved.epsilon =
                  IF lastOp.store = "file" THEN config.epsilon ELSE kvConfig.epsilon

(***************************************************************************)
(* Properties of failing callbacks and malformed objectives (checked under *)
(* SpecFaults).                                                            *)
(***************************************************************************)
\* C14: a generator call that fails, at the first candidate or in any
\* iteration, is not propagated: the session goes on with the heuristic
\* candidate and ends CONVERGED or EXHAUSTED.
C14_GeneratorFailureFallsBack ==
    ~ (session.pc = "thrown" /\ session.status = "GENERATOR_ERROR")

\* C15: a session started with a malformed objective is rejected before
\* the first generator call and before any iteration: no action is
\* selected, and there is no Q-value update, experience, epsilon decay or
\* save.
C15_MalformedObjectiveRejected ==
    session.objective \in MalformedObjectives =>
        /\ session.pc \in { "idle", "thrown" }
        /\ session.selectedAction = ""
        /\ session.iterationLogs = << >>
        /\ session.decays = 0
        /\ qtable = << >> /\ experiences = << >>
        /\ qwrites = << >> /\ expwrites = << >>

(***************************************************************************)
(* Properties of failing loads and saves (checked under SpecStore).        *)
(***************************************************************************)
\* C16 as stated: a session that runs after a load or a save has failed
\* returns the result it returns when the operation succeeds -- the result
\* of the first process, which had loaded the same file -- and no
\* exception escapes.
C16_StoreFailureKeepsOutcome ==
    /\ session.pc # "thrown"
    /\ (BothRunsDone /\ session.restored) => SameResults

\* C16: no failure of a load or a save makes a session fail: the session
\* ends CONVERGED or EXHAUSTED and returns its result, no exception
\* escapes, and a failed save changes nothing of the outcome: the process
\* that loads the file the failed saves left unchanged returns the result
\* of the first.  (After a failed load the session runs on an empty
\* Q-table with the default hyperparameters.)
C16_StoreFailureNotFatal ==
    /\ session.pc # "thrown"
    /\ session.pc = "returned" =>
          /\ session.status \in { "CONVERGED", "EXHAUSTED" }
          /\ session.result # NoResult
    /\ (lastOp.op = "load_failed" /\ session.iterationLogs = << >>) =>
          qtable = << >> /\ config = DEFAULT_CONFIG
    /\ (BothRunsDone /\ session.restored /\ lastOp.op = "load") => SameResults

\* the saves of the first process and the load of the second have failed,
\* and the second session has returned a result that is not the first's
C16_Witness ==
    /\ BothRunsDone
    /\ session.restored
    /\ lastOp.op = "load_failed"
    /\ lastOp.result = "save_failed"
    /\ session.status = "CONVERGED"
    /\ ~ SameResults

C18_ExhaustedReturnsLast ==
    (session.pc = "returned" /\ session.status = "EXHAUSTED") =>
        /\ session.result[1].iterations = session.maxIterations
        /\ Len(Logs) = session.maxIterations
        /\ Len(Logs) > 0 =>
              /\ LastLog.iteration = session.maxIterations
              /\ session.result[1].output = LastLog.output
              /\ session.result[1].finalReward = LastLog.total
              /\ LastLog.total =
                    applySemanticPenalty(LastLog.calculated, LastLog.issues).total

\* an exhausted session whose last candidate is not its best one: the
\* second iteration earned less than the first
C18_Witness ==
    /\ session.pc = "returned" /\ session.status = "EXHAUSTED"
    /\ session.maxIterations = 2
    /\ Len(Logs) = 2
    /\ Logs[1].total > Logs[2].total
    /\ Logs[1].output # Logs[2].output
    /\ session.result[1].output = Logs[2].output

(***************************************************************************)
(* Properties of the reward of an iteration (checked under Spec).          *)
(***************************************************************************)
\* C19: the reward of every iteration, semantic penalty included, has a
\* constraintScore in [0, 100] and a qualityScore in [-30, +30].
C19_RewardInRange ==
    \A i \in DOMAIN Logs :
        /\ Logs[i].constraintScore >= 0
        /\ Logs[i].constraintScore <= Points(100)
        /\ Logs[i].qualityScore >= 0 - Points(30)
        /\ Logs[i].qualityScore <= Points(30)

PersistedTable ==
    IF lastOp.store = "file" THEN PlainOf(qfile[1].qtable) ELSE kvStore[1].qTable

\* C21: the saves of two concurrent sessions are not mutually exclusive
\* and the last writer wins: once a save has completed, the persisted
\* Q-table is the whole table the session whose save completed last handed
\* to that save.
C21_LastWriterWins ==
    lastOp.writer # 0 =>
        << PersistedTable >> = session.clients[lastOp.writer].saved

\* both sessions have finished and the persisted table is that of the
\* first one to return, whose write completed last: it differs from the
\* table the other session saved
C21_Witness ==
    /\ \A i \in ConcClients : session.clients[i].pc = "done"
    /\ qwrites = << >>
    /\ lastOp.writer = 1
    /\ << PersistedTable >> = session.clients[1].saved
    /\ session.clients[1].saved # session.clients[2].saved
    /\ lastOp.store = "file" => session.clients[1].saved # << PlainOf(qtable) >>

(***************************************************************************)
(* Frame of the Q-table operations (checked under SpecQ).                  *)
(***************************************************************************)
\* C22: only the Bellman update mutates the Q-table: getQValue,
\* selectAction and a save leave the set of state entries and every
\* Q-value as they were.
C22_OnlyUpdateMutates ==
    [][ lastOp'.op \in { "get", "select", "save" } =>
            /\ qtable' = qtable
            /\ kvTable' = kvTable ]_vars

\* the pair (k, a) has been written to the Map
Written(qt, k, a) == k \in KeysOf(qt) /\ a \in DOMAIN ActionMapOf(qt, k)

\* C23: for a (state, action) pair never written, getQValue returns a small
\* positive seed when the action is the generator action of the engine
\* (USE_GENERATOR, or the LLM-policy action of the SQL engine) and 0 for
\* every other action.
C23_SeedForGeneratorAction ==
    ( /\ lastOp.store = "file"
      /\ lastOp.op = "get"
      /\ ~ Written(qtable, lastOp.key, lastOp.action) ) =>
        IF lastOp.action \in GeneratorActions
        THEN lastOp.result > 0 /\ lastOp.result < Points(1)
        ELSE lastOp.result = 0

\* C24: state extraction followed by the key computation is deterministic
\* and independent of volatile fields: two extractions with the same
\* objective and the same candidate give the same key (or both throw),
\* whatever the iteration numbers and the clock readings
C24_KeyIgnoresVolatileFields ==
    \A x \in session.log : \A y \in session.log :
        (x.objective = y.objective /\ x.candidate = y.candidate) =>
            (x.threw = y.threw /\ x.key = y.key)

\* the generic engine has extracted the state of one output under one
\* objective twice, in different iterations and at different times
C24_Witness ==
    /\ session.engine = "generic"
    /\ \E x \in session.log : \E y \in session.log :
          /\ x.objective = y.objective /\ x.candidate = y.candidate
          /\ ~ x.threw
          /\ x.iteration # y.iteration
          /\ x.timestamp # y.timestamp

\* C25: states of different objectives never collide: for one candidate,
\* two objectives that differ in any field give different keys
C25_ObjectivesNeverCollide ==
    \A x \in session.log : \A y \in session.log :
        (x.candidate = y.candidate /\ x.objective # y.objective
            /\ ~ x.threw /\ ~ y.threw) =>
            x.key # y.key

\* the generator action of an engine: SQLAction.USE_LLM_POLICY,
\* GenericAction.USE_GENERATOR
GeneratorActionOf(engine) == IF engine = "sql" THEN "llm_policy" ELSE "USE_GENERATOR"

RequiresGeneration == { "USE_GENERATOR", "RESET", "REFINE", "EXPAND" }

\* what a transformation can return for an output
TransformationsOf(output, action) ==
    CASE action = "PERTURB_OUTPUT"
             -> { perturbOutput(output, ij[1], ij[2]) : ij \in PerturbDraws }
      [] action = "SIMPLIFY" -> { simplifyOutput(output) }
      [] OTHER -> { output }

C29_AbsentAnalysisIsEmptyMap ==
    ~ (session.pc = "thrown" /\ session.status = "ANALYSIS_TYPE_ERROR")

\* C30: with an objective that requires the filter on 'Coffee', a
\* generator whose first candidate has no filter and which adds it when
\* handed MISSING_FILTER_FIELD, every session with maxIterations = 6 ends
\* converged, with a final candidate that contains the filter
C30_ScenarioConverges ==
    session.pc \in { "returned", "thrown" } =>
        /\ session.status = "CONVERGED"
        /\ Includes(session.result[1].output, "merchant_name")
        /\ Includes(session.result[1].output, "coffee")

(***************************************************************************)
(* Properties of eviction (checked under SpecEvict).                       *)
(***************************************************************************)
\* the position of key k in a sequence of distinct keys
KeyPosition(keys, k) == CHOOSE i \in DOMAIN keys : keys[i] = k

C32_AlwaysAdvances ==
    /\ \A i \in 1..(Len(experiences) - 1) :
          experiences[i + 1].stateKey = experiences[i].nextStateKey
    /\ (session.pc \in { "select", "evaluate" } /\ session.iterationLogs # << >>) =>
          session.currentOutput
            = session.iterationLogs[Len(session.iterationLogs)].output

\* three iterations of optimizeSQL; the reward of the second was below the
\* reward of the first, its candidate was a new one, and the third
\* iteration started from it
C32_Witness ==
    /\ session.pc # "idle"
    /\ session.engine = "sql"
    /\ Len(session.iterationLogs) = 3
    /\ session.iterationLogs[2].total < session.iterationLogs[1].total
    /\ session.iterationLogs[2].output # session.iterationLogs[1].output
    /\ Len(experiences) = 2
    /\ experiences[2].stateKey = stateKey(session.iterationLogs[2].output)
    /\ experiences[2].stateKey # experiences[1].stateKey

(***************************************************************************)
(* Properties of the reads of the experience buffers (checked under        *)
(* SpecExp).                                                               *)
(***************************************************************************)
\* the last n elements of xs, in their order
LastN(xs, n) == [ i \in 1..n |-> xs[Len(xs) - n + i] ]

\* C33: getRecentExperiences(n) returns exactly the min(n, size) most
\* recently added experiences, in insertion order, for every n >= 0; for
\* n = 0 it returns the empty list.
C33_RecentReturnsLastN ==
    (lastOp.op = "recent") =>
      LET buffer == BufferOf(lastOp.store)
          n == lastOp.key
      IN  /\ lastOp.result = LastN(buffer, Min2(n, Len(buffer)))
          /\ n = 0 => lastOp.result = << >>

(***************************************************************************)
(* Properties of the shared Map of two sessions in one process (checked    *)
(* under SpecConc).                                                        *)
(***************************************************************************)
\* the actions the sessions of SpecConc pass to updateQValue
ConcActions == { "llm_policy", "add_where" }

\* the value a Bellman update with reward r stores for (k, llm_policy) when
\* it is applied to table qt
ConcBellman(qt, k, r) ==
    Bellman(StoredQ(qt, k, "llm_policy"), config.alpha, config.gamma, r,
            SetMax({ StoredQ(qt, k, b) : b \in ConcActions }))

QValuesKept(qt, rt) ==
    \A i \in DOMAIN qt :
       /\ qt[i][1] \in KeysOf(rt)
       /\ \A a \in DOMAIN qt[i][2] :
             /\ a \in DOMAIN ActionMapOf(rt, qt[i][1])
             /\ ActionMapOf(rt, qt[i][1])[a] = qt[i][2][a]

\* C35: the load started at module import never discards in-memory
\* learning: the Q-values a session has updated and the experiences it has
\* appended before loadQTable or loadExperiences completes are still in
\* the in-memory store after the load has completed, whether it succeeded
\* or failed.
C35_LoadKeepsLearning ==
    [][ /\ (lastOp.qload = "pending" /\ lastOp'.qload # "pending")
           => QValuesKept(qtable, qtable')
        /\ (lastOp.expload = "pending" /\ lastOp'.expload # "pending")
           => Range(experiences) \subseteq Range(experiences')
      ]_vars

(***************************************************************************)
(* Properties of the bookkeeping of an iteration (checked under Spec).     *)
(***************************************************************************)
\* the number of experiences added to the buffer since the process
\* started: the ids are handed out in order
ExperiencesAdded(exps) == IF exps = << >> THEN 0 ELSE exps[Len(exps)].id

\* C36: each executed iteration of a session performs exactly one Bellman
\* update, appends exactly one experience and appends exactly one
\* iteration-log entry, so when a session returns, the length of its
\* iteration log equals the returned iterations count and the number of
\* experiences the session added.
C36_OneOfEachPerIteration ==
    [][ LET logs == session.iterationLogs
            logs2 == session'.iterationLogs
            last == logs2[Len(logs2)]
        IN  /\ Len(logs2) \in { Len(logs), Len(logs) + 1 }
            /\ Len(logs2) = Len(logs) =>
                  /\ qtable' = qtable
                  /\ experiences' = experiences
            /\ Len(logs2) = Len(logs) + 1 =>
                  \* one experience
                  /\ ExperiencesAdded(experiences') = ExperiencesAdded(experiences) + 1
                  /\ \A i \in 1..(Len(experiences') - 1) :
                        experiences'[i] \in Range(experiences)
                  \* one Bellman update, of the pair of this iteration
                  /\ StoredQ(qtable', session.currentStateKey, session.selectedAction)
                       = Bellman(StoredQ(qtable, session.currentStateKey,
                                         session.selectedAction),
                                 config.alpha, config.gamma, last.total,
                                 SetMax({ StoredQ(qtable, KeyOf(session.engine, last.output), b) :
                                            b \in Range(session.applicableActions) }))
                  /\ \A j \in KeysOf(qtable') \ { session.currentStateKey } :
                        /\ j \in KeysOf(qtable)
                        /\ ActionMapOf(qtable', j) = ActionMapOf(qtable, j)
            /\ ExperiencesAdded(experiences') = Len(logs2)
            /\ session'.pc = "returned" =>
                  /\ session'.result[1].iterations = Len(logs2)
                  /\ session'.result[1].iterations = ExperiencesAdded(experiences')
      ]_vars

\* a session of two iterations has returned: two log entries, two
\* experiences, and the Q-values of two updates
C36_Witness ==
    /\ session.pc = "returned"
    /\ session.result[1].iterations = 2
    /\ Len(session.iterationLogs) = 2
    /\ Len(experiences) = 2
    /\ experiences[1].id = 1 /\ experiences[2].id = 2
    /\ experiences[1].stateKey # experiences[2].stateKey
    /\ Len(qtable) = 2

\* C37: an experience is recorded with terminal = true exactly when the
\* iteration that produced it satisfied the convergence predicate and
\* ended its session; every experience of an iteration after which the
\* session continued has terminal = false.
C37_TerminalIffConverged ==
    \A i \in DOMAIN experiences :
       LET e == experiences[i]
           logs == session.iterationLogs
           entry == logs[e.id]
       IN  /\ e.terminal <=>
                ConvergenceReached(session.engine, entry.passed, entry.semanticMatch,
                                   entry.total)
           /\ e.terminal => (e.id = Len(logs) /\ session.status = "CONVERGED")
           /\ e.id < Len(logs) => ~ e.terminal

(***************************************************************************)
(* Properties of updateFromExecution (checked under SpecExec).             *)
(***************************************************************************)
\* C38: updateFromExecution called with an experience id that is not in
\* the buffer (never recorded, or already evicted) leaves the in-memory
\* Q-table and the persisted Q-table unchanged and returns without raising
\* an error.
C38_UnknownIdChangesNothing ==
    [][ (/\ session.pc = "lookup"
         /\ session'.pc # "lookup"
         /\ \A i \in DOMAIN experiences : experiences[i].id # session.id) =>
        /\ session'.pc = "returned"
        /\ qtable' = qtable
        /\ config' = config
        /\ qwrites' = qwrites
        /\ qfile' = qfile
      ]_vars

\* the first call found its experience and updated the Q-table; the second
\* call named experience 1, which had been evicted, and returned
C38_Witness ==
    /\ session.pc = "returned"
    /\ session.status = "NOT_FOUND"
    /\ session.calls = 2
    /\ session.id = 1
    /\ Len(experiences) = MaxExperiences
    /\ experiences[1].id = 2
    /\ qtable # << >>
    /\ qfile # << >>
    /\ qwrites = << >>
    /\ qfile[1].qtable = qtable

(***************************************************************************)
(* Properties of the direction of epsilon decay (checked under SpecDecay). *)
(***************************************************************************)
\* the exploration rate of the store of the run
EpsilonOf(cfg, kvCfg) == IF lastOp.store = "file" THEN cfg.epsilon ELSE kvCfg.epsilon

\* the minimum exploration rate decayEpsilon applies: epsilonMin, and in
\* QLearningKV minEpsilon || 0.01
EpsilonFloor ==
    IF lastOp.store = "file" THEN config.epsilonMin
    ELSE IF kvConfig.minEpsilon # 0 THEN kvConfig.minEpsilon ELSE 10

====
